---------------------------- MODULE Spec2Model ----------------------------
(***************************************************************************)
(* A model of the Mermaid+metadata parsing engine of the backend           *)
(* (src/backend/mermaid_parser.py).                                         *)
(*                                                                         *)
(* Texts are sequences of characters; a character is a one-character       *)
(* string, the backtick being written BT because a TLA+ string cannot      *)
(* hold it.  Positions are 1-based, and 0 stands for Python's -1 ("not     *)
(* found").                                                                *)
(***************************************************************************)
EXTENDS Integers, Sequences, FiniteSets

----------------------------------------------------------------------------
(* Characters and strings (Python str methods)                             *)

BT == "BKT"
NL == "\n"
\* The characters Python's \s and str.strip() treat as whitespace.
WS == {" ", "\t", "\n", "\r"}

FENCE == <<BT, BT, BT>>
SEP == <<"-", "-", "-">>
METADATA == <<"m","e","t","a","d","a","t","a",":">>
kwYaml == <<"y","a","m","l">>
kwMermaid == <<"m","e","r","m","a","i","d">>

MinOf(S) == CHOOSE x \in S : \A y \in S : x <= y
MaxOf(S) == CHOOSE x \in S : \A y \in S : x >= y

\* s[i:] and s[:i] for a 1-based position i.
From(s, i) == SubSeq(s, i, Len(s))
Upto(s, i) == SubSeq(s, 1, i)

\* str.lstrip(), str.rstrip(), str.strip()
LStrip(s) ==
    LET idx == {i \in 1..Len(s) : s[i] \notin WS}
    IN  IF idx = {} THEN <<>> ELSE From(s, MinOf(idx))
RStrip(s) ==
    LET idx == {i \in 1..Len(s) : s[i] \notin WS}
    IN  IF idx = {} THEN <<>> ELSE Upto(s, MaxOf(idx))
Strip(s) == LStrip(RStrip(s))

\* str.strip(chars): both ends lose every character of the set cs.
StripChars(s, cs) ==
    LET idx == {i \in 1..Len(s) : s[i] \notin cs}
    IN  IF idx = {} THEN <<>> ELSE SubSeq(s, MinOf(idx), MaxOf(idx))

\* p occurs in s at position i.
MatchAt(s, p, i) ==
    /\ i >= 1
    /\ i + Len(p) - 1 <= Len(s)
    /\ \A k \in 1..Len(p) : s[i + k - 1] = p[k]

StartsWith(s, p) == MatchAt(s, p, 1)
EndsWith(s, p) == MatchAt(s, p, Len(s) - Len(p) + 1)

\* str.find(p, from): the least position >= from where p occurs, else 0.
FindFrom(s, p, from) ==
    LET idx == {i \in from..Len(s) : MatchAt(s, p, i)}
    IN  IF idx = {} THEN 0 ELSE MinOf(idx)
Find(s, p) == FindFrom(s, p, 1)

\* str.rfind(p, 0, end): the greatest position where p occurs wholly before
\* position end (exclusive), else 0.
RFindBefore(s, p, end) ==
    LET idx == {i \in 1..Len(s) : MatchAt(s, p, i) /\ i + Len(p) - 1 < end}
    IN  IF idx = {} THEN 0 ELSE MaxOf(idx)
RFind(s, p) == RFindBefore(s, p, Len(s) + 1)

Contains(s, p) == Find(s, p) # 0

\* str.split(sep) for a non-empty separator.
RECURSIVE Split(_, _)
Split(s, sep) ==
    LET i == Find(s, sep)
    IN  IF i = 0 THEN <<s>>
        ELSE <<Upto(s, i - 1)>> \o Split(From(s, i + Len(sep)), sep)

\* sep.join(parts)
RECURSIVE Join(_, _)
Join(parts, sep) ==
    IF parts = <<>> THEN <<>>
    ELSE IF Len(parts) = 1 THEN parts[1]
    ELSE parts[1] \o sep \o Join(Tail(parts), sep)

\* str.replace(p, "") for a non-empty p.
RECURSIVE Remove(_, _)
Remove(s, p) ==
    LET i == Find(s, p)
    IN  IF i = 0 THEN s ELSE Upto(s, i - 1) \o Remove(From(s, i + Len(p)), p)

LowerAlpha == <<"a","b","c","d","e","f","g","h","i","j","k","l","m",
                "n","o","p","q","r","s","t","u","v","w","x","y","z">>
UpperAlpha == <<"A","B","C","D","E","F","G","H","I","J","K","L","M",
                "N","O","P","Q","R","S","T","U","V","W","X","Y","Z">>
Digits == <<"0","1","2","3","4","5","6","7","8","9">>
IdxIn(seq, c) == CHOOSE i \in 1..Len(seq) : seq[i] = c
IsIn(seq, c) == \E i \in 1..Len(seq) : seq[i] = c

UpperChar(c) == IF IsIn(LowerAlpha, c) THEN UpperAlpha[IdxIn(LowerAlpha, c)] ELSE c
LowerChar(c) == IF IsIn(UpperAlpha, c) THEN LowerAlpha[IdxIn(UpperAlpha, c)] ELSE c
\* str.upper(), str.lower()
Upper(s) == [i \in 1..Len(s) |-> UpperChar(s[i])]
Lower(s) == [i \in 1..Len(s) |-> LowerChar(s[i])]

\* The superscript two (U+00B2), written SUP2 as the backtick is written BT:
\* a character that str.isdigit() accepts and int() rejects.
SUP2 == "SUP2"
\* str.isdecimal() over the characters of the model: what int() and the
\* YAML int resolver accept.
IsDecimal(s) == Len(s) > 0 /\ \A i \in 1..Len(s) : IsIn(Digits, s[i])
\* str.isdigit(): non-empty and all digits, the superscript among them.
IsDigit(s) == Len(s) > 0 /\ \A i \in 1..Len(s) : IsIn(Digits, s[i]) \/ s[i] = SUP2
\* int(s) of a decimal string.
RECURSIVE ToInt(_)
ToInt(s) ==
    IF s = <<>> THEN 0
    ELSE 10 * ToInt(Upto(s, Len(s) - 1)) + (IdxIn(Digits, s[Len(s)]) - 1)

\* The end (position after) of the maximal run of characters of cs at i.
RECURSIVE RunEnd(_, _, _)
RunEnd(s, cs, i) ==
    IF i <= Len(s) /\ s[i] \in cs THEN RunEnd(s, cs, i + 1) ELSE i

\* The regex fragment \s*\n at position i: the whitespace run at i must hold
\* a newline, and the greedy match ends after the run's last newline.
\* 0 when it does not match.
WsThenNewline(s, i) ==
    LET e == RunEnd(s, WS, i)
        nls == {k \in i..(e - 1) : s[k] = NL}
    IN  IF nls = {} THEN 0 ELSE MaxOf(nls) + 1

----------------------------------------------------------------------------
(* strip_markdown                                                          *)

\* The end of the optional language tag (?:yaml|mermaid)? at i followed by
\* \s*\n: the tag is tried first, then the empty alternative.  0: no match.
TagThenNewline(s, i, first, second) ==
    LET a == IF MatchAt(s, first, i) THEN WsThenNewline(s, i + Len(first)) ELSE 0
        b == IF MatchAt(s, second, i) THEN WsThenNewline(s, i + Len(second)) ELSE 0
    IN  IF a # 0 THEN a ELSE IF b # 0 THEN b ELSE WsThenNewline(s, i)

\* A match of \n```\s*\n+```(?:yaml|mermaid)?\s*\n at i: its end, else 0.
MidFenceEnd(s, i) ==
    IF ~MatchAt(s, <<NL>> \o FENCE, i) THEN 0
    ELSE LET j == RunEnd(s, WS, i + 4)
         IN  IF j > i + 4 /\ s[j - 1] = NL /\ MatchAt(s, FENCE, j)
             THEN TagThenNewline(s, j + 3, kwYaml, kwMermaid)
             ELSE 0

\* re.sub(r'\n```\s*\n+```(?:yaml|mermaid)?\s*\n', '\n', text)
RECURSIVE SubMidFence(_)
SubMidFence(s) ==
    LET idx == {i \in 1..Len(s) : MidFenceEnd(s, i) # 0}
    IN  IF idx = {} THEN s
        ELSE LET i == MinOf(idx)
             IN  Upto(s, i - 1) \o <<NL>> \o SubMidFence(From(s, MidFenceEnd(s, i)))

\* A match of ^```(?:mermaid|yaml)?\s*\n (MULTILINE) at i: its end, else 0.
LineFenceEnd(s, i) ==
    IF (i = 1 \/ s[i - 1] = NL) /\ MatchAt(s, FENCE, i)
    THEN TagThenNewline(s, i + 3, kwMermaid, kwYaml)
    ELSE 0

\* re.sub(r'^```(?:mermaid|yaml)?\s*\n', '', text, flags=re.MULTILINE).
\* The text after a match is scanned as part of the same string, so a match
\* position is tested in s, not in the remainder.
RECURSIVE SubLineFenceFrom(_, _)
SubLineFenceFrom(s, from) ==
    LET idx == {i \in from..Len(s) : LineFenceEnd(s, i) # 0}
    IN  IF idx = {} THEN From(s, from)
        ELSE LET i == MinOf(idx)
             IN  SubSeq(s, from, i - 1) \o SubLineFenceFrom(s, LineFenceEnd(s, i))
SubLineFence(s) == SubLineFenceFrom(s, 1)

\* re.sub(r'\n```\s*$', '', text): the leftmost \n``` followed by whitespace
\* only up to the end of the text is cut off with all that follows.
SubTailFence(s) ==
    LET idx == {i \in 1..Len(s) :
                  MatchAt(s, <<NL>> \o FENCE, i) /\ RunEnd(s, WS, i + 4) = Len(s) + 1}
    IN  IF idx = {} THEN s ELSE Upto(s, MinOf(idx) - 1)

StripLeadingFence(t) ==
    IF StartsWith(t, FENCE)
    THEN LET first_newline == Find(t, <<NL>>)
         IN  IF first_newline > 1 THEN From(t, first_newline + 1) ELSE From(t, 4)
    ELSE t

StripTrailingFence(t) ==
    IF EndsWith(RStrip(t), FENCE)
    THEN RStrip(Upto(RStrip(t), Len(RStrip(t)) - 3))
    ELSE t

strip_markdown(text) ==
    Strip(SubTailFence(SubLineFence(SubMidFence(
        StripTrailingFence(StripLeadingFence(Strip(text)))))))


----------------------------------------------------------------------------
(* parse_mermaid_response: sentinel check and segmentation                 *)

kwNoLlmUnderscore == <<"N","O","_","L","L","M">>
kwNoLlmSpace == <<"N","O"," ","L","L","M">>
kwNoLlmWorkflow == <<"N","O","_","L","L","M","_","W","O","R","K","F","L","O","W">>

\* A variant of IsSentinel that knows the underscore form only.
IsSentinelUnderscoreOnly(response) ==
    StartsWith(Upper(Strip(response)), kwNoLlmUnderscore)
\* response_upper.startswith("NO_LLM") or response_upper.startswith("NO LLM")
IsSentinel(response) ==
    LET response_upper == Upper(Strip(response))
    IN  StartsWith(response_upper, kwNoLlmUnderscore)
            \/ StartsWith(response_upper, kwNoLlmSpace)

\* The end of the whitespace run of \n---\s*\n\s*metadata: that starts at i,
\* when the pattern matches at i; else 0.  The run after the separator must
\* hold a newline and be followed by the literal.
StrictPatternAt(s, i) ==
    IF ~MatchAt(s, <<NL>> \o SEP, i) THEN 0
    ELSE LET e == RunEnd(s, WS, i + 4)
         IN  IF (\E k \in (i + 4)..(e - 1) : s[k] = NL) /\ MatchAt(s, METADATA, e)
             THEN e ELSE 0

\* re.search(r'\n---\s*\n\s*metadata:', response): the start of the
\* leftmost match, else 0.
StrictPatternStart(s) ==
    LET idx == {i \in 1..Len(s) : StrictPatternAt(s, i) # 0}
    IN  IF idx = {} THEN 0 ELSE MinOf(idx)

PREVIEW_LEN == 200
\* A variant of Preview that does not truncate.
PreviewUnbounded(s) == s
Preview(s) == Upto(s, IF Len(s) < PREVIEW_LEN THEN Len(s) ELSE PREVIEW_LEN)

\* A variant of Segment in which the chain falls through to the last
\* separator whenever one occurs anywhere.
SegmentFallThrough(response) ==
    IF Contains(response, SEP)
    THEN [ok |-> TRUE, rule |-> 3,
          diagram_part |-> Upto(response, RFind(response, SEP) - 1),
          metadata_part |-> From(response, RFind(response, SEP) + 3),
          preview |-> <<>>]
    ELSE [ok |-> FALSE, rule |-> 4, diagram_part |-> <<>>, metadata_part |-> <<>>,
          preview |-> Upto(response, IF Len(response) < 200 THEN Len(response) ELSE 200)]
\* The split of the cleaned response: [ok, rule, diagram_part, metadata_part]
\* or the ValueError of lines 92 and 102 with its preview.
Segment(response) ==
    LET start == StrictPatternStart(response)
        metadata_marker == Find(response, METADATA)
        sep_before_meta == RFindBefore(response, SEP, metadata_marker)
        last_sep == RFind(response, SEP)
        fail(r) == [ok |-> FALSE, rule |-> r, diagram_part |-> <<>>,
                    metadata_part |-> <<>>, preview |-> Preview(response)]
    IN  IF start # 0
        THEN [ok |-> TRUE, rule |-> 1,
              diagram_part |-> Upto(response, start - 1),
              metadata_part |-> From(response, StrictPatternAt(response, start) + 9),
              preview |-> <<>>]
        ELSE IF Contains(response, SEP) /\ Contains(response, METADATA)
        THEN IF sep_before_meta # 0
             THEN [ok |-> TRUE, rule |-> 2,
                   diagram_part |-> Upto(response, sep_before_meta - 1),
                   metadata_part |-> From(response, metadata_marker + 9),
                   preview |-> <<>>]
             ELSE fail(2)
        ELSE IF Contains(response, SEP)
        THEN [ok |-> TRUE, rule |-> 3,
              diagram_part |-> Upto(response, last_sep - 1),
              metadata_part |-> From(response, last_sep + 3),
              preview |-> <<>>]
        ELSE fail(4)

----------------------------------------------------------------------------
(* parse_mermaid_response: clean-up of the metadata part                   *)

\* The end of the line that holds position i (the position of its newline,
\* or Len(s) + 1).
LineEnd(s, i) ==
    LET n == FindFrom(s, <<NL>>, i) IN IF n = 0 THEN Len(s) + 1 ELSE n

AtLineStart(s, i) == i = 1 \/ s[i - 1] = NL

\* \s*$ (MULTILINE) at i: the longest whitespace run from i that ends at the
\* end of the text or before a newline; its end, else 0.
WsThenEol(s, i) ==
    LET e == RunEnd(s, WS, i)
        ends == {k \in i..e : k = Len(s) + 1 \/ (k < e /\ s[k] = NL)}
    IN  IF ends = {} THEN 0 ELSE MaxOf(ends)

\* ^NO_LLM_WORKFLOW.*$
SentinelLineA(s, i) ==
    IF AtLineStart(s, i) /\ MatchAt(s, kwNoLlmWorkflow, i) THEN LineEnd(s, i) ELSE 0
\* ^NO_LLM\s.*$ : \s may be the newline, and then .* is the next line.
SentinelLineB(s, i) ==
    IF AtLineStart(s, i) /\ MatchAt(s, kwNoLlmUnderscore, i)
          /\ i + 6 <= Len(s) /\ s[i + 6] \in WS
    THEN LineEnd(s, i + 7) ELSE 0
\* ^NO_LLM\s*$
SentinelLineC(s, i) ==
    IF AtLineStart(s, i) /\ MatchAt(s, kwNoLlmUnderscore, i)
    THEN WsThenEol(s, i + 6) ELSE 0
\* ^---\s*$
SepLine(s, i) ==
    IF AtLineStart(s, i) /\ MatchAt(s, SEP, i) THEN WsThenEol(s, i + 3) ELSE 0

RECURSIVE SubSentinelA(_, _)
SubSentinelA(s, from) ==
    LET idx == {i \in from..Len(s) : SentinelLineA(s, i) # 0}
    IN  IF idx = {} THEN From(s, from)
        ELSE SubSeq(s, from, MinOf(idx) - 1)
                \o SubSentinelA(s, SentinelLineA(s, MinOf(idx)))
RECURSIVE SubSentinelB(_, _)
SubSentinelB(s, from) ==
    LET idx == {i \in from..Len(s) : SentinelLineB(s, i) # 0}
    IN  IF idx = {} THEN From(s, from)
        ELSE SubSeq(s, from, MinOf(idx) - 1)
                \o SubSentinelB(s, SentinelLineB(s, MinOf(idx)))
RECURSIVE SubSentinelC(_, _)
SubSentinelC(s, from) ==
    LET idx == {i \in from..Len(s) : SentinelLineC(s, i) # 0}
    IN  IF idx = {} THEN From(s, from)
        ELSE SubSeq(s, from, MinOf(idx) - 1)
                \o SubSentinelC(s, SentinelLineC(s, MinOf(idx)))
RECURSIVE SubSepLine(_, _)
SubSepLine(s, from) ==
    LET idx == {i \in from..Len(s) : SepLine(s, i) # 0}
    IN  IF idx = {} THEN From(s, from)
        ELSE SubSeq(s, from, MinOf(idx) - 1)
                \o SubSepLine(s, SepLine(s, MinOf(idx)))

StripMetadataLiteral(m) ==
    IF StartsWith(m, METADATA) THEN Strip(From(m, 10)) ELSE m

\* metadata_part.split('\n---')[0] when '\n---' occurs.
FirstDocument(m) ==
    LET i == Find(m, <<NL>> \o SEP)
    IN  IF i = 0 THEN m ELSE Upto(m, i - 1)

\* Lines 105-120.
CleanMetadata(metadata_part) ==
    Strip(SubSepLine(FirstDocument(
        SubSentinelC(SubSentinelB(SubSentinelA(
            StripMetadataLiteral(Strip(strip_markdown(metadata_part))), 1), 1), 1)), 1))

----------------------------------------------------------------------------
(* parse_workflows                                                         *)

kwFlowchart == <<"f","l","o","w","c","h","a","r","t">>
kwWorkflowComment == <<"%","%"," ","W","o","r","k","f","l","o","w",":">>
kwComment == <<"%","%">>
MAIN_WORKFLOW == <<"M","a","i","n"," ","W","o","r","k","f","l","o","w">>

\* workflows.append((current_name, current_lines)) when current_lines is
\* not empty.
FlushBlock(workflows, current_name, current_lines) ==
    IF current_lines # <<>>
    THEN Append(workflows, [name |-> current_name, lines |-> current_lines])
    ELSE workflows

\* A variant of NameAfterKeyword that keeps the name across the keyword line.
NameKept(current_name) == current_name
\* Line 187: the name of the block that a keyword line opens.
NameAfterKeyword(current_name) == MAIN_WORKFLOW

\* The loop of lines 179-196 over the lines still to read.
RECURSIVE WorkflowsLoop(_, _, _, _)
WorkflowsLoop(rest, workflows, current_name, current_lines) ==
    IF rest = <<>> THEN FlushBlock(workflows, current_name, current_lines)
    ELSE LET line == Strip(Head(rest))
         IN  IF StartsWith(line, kwFlowchart)
             THEN WorkflowsLoop(Tail(rest),
                                FlushBlock(workflows, current_name, current_lines),
                                NameAfterKeyword(current_name), <<>>)
             ELSE IF StartsWith(line, kwWorkflowComment)
             THEN WorkflowsLoop(Tail(rest), workflows,
                                Strip(Remove(line, kwWorkflowComment)), current_lines)
             ELSE IF line # <<>> /\ ~StartsWith(line, kwComment)
             THEN WorkflowsLoop(Tail(rest), workflows, current_name,
                                Append(current_lines, line))
             ELSE WorkflowsLoop(Tail(rest), workflows, current_name, current_lines)

\* The list of (workflow_name, lines) blocks of the diagram section.
parse_workflows(diagram) ==
    WorkflowsLoop(Split(Strip(diagram), <<NL>>), <<>>, MAIN_WORKFLOW, <<>>)

----------------------------------------------------------------------------
(* parse_flowchart: the shape grammar and the edge pattern                 *)

\* The end of the maximal run of characters outside cs at i.
RECURSIVE RunEndNot(_, _, _)
RunEndNot(s, cs, i) ==
    IF i <= Len(s) /\ s[i] \notin cs THEN RunEndNot(s, cs, i + 1) ELSE i

\* node_id = [^\s\[\](){}]+ and edge_id = [^\s\[\](){}|>]+
NODE_ID_STOP == WS \cup {"[", "]", "(", ")", "{", "}"}
EDGE_ID_STOP == NODE_ID_STOP \cup {"|", ">"}

\* node_patterns, in the order of the list: the opening and closing
\* delimiters, the character that ends the label, and the node type.
tStep == <<"s","t","e","p">>
tLlm == <<"l","l","m">>
tDecision == <<"d","e","c","i","s","i","o","n">>
node_patterns ==
    << [open |-> <<"[", "[">>, close |-> <<"]", "]">>, stop |-> "]", type |-> tStep],
       [open |-> <<"(", "[">>, close |-> <<"]", ")">>, stop |-> "]", type |-> tLlm],
       [open |-> <<"{">>,      close |-> <<"}">>,      stop |-> "}", type |-> tDecision],
       [open |-> <<"[">>,      close |-> <<"]">>,      stop |-> "]", type |-> tStep],
       [open |-> <<"(">>,      close |-> <<")">>,      stop |-> ")", type |-> tStep] >>

NoShape == [end |-> 0, id |-> <<>>, label |-> <<>>]

\* A match of pattern pat that starts at position i of the line: the
\* identifier is the run of id characters at i, followed by the opening
\* delimiter, a non-empty label up to the stop character, and the closing
\* delimiter.
ShapeAt(line, pat, i) ==
    LET idEnd == RunEndNot(line, NODE_ID_STOP, i)
        labStart == idEnd + Len(pat.open)
        labEnd == RunEndNot(line, {pat.stop}, labStart)
    IN  IF idEnd > i /\ MatchAt(line, pat.open, idEnd)
              /\ labEnd > labStart /\ MatchAt(line, pat.close, labEnd)
        THEN [end |-> labEnd + Len(pat.close),
              id |-> SubSeq(line, i, idEnd - 1),
              label |-> SubSeq(line, labStart, labEnd - 1)]
        ELSE NoShape

\* re.finditer(pattern, line): the non-overlapping matches, leftmost first.
RECURSIVE FindShapes(_, _, _)
FindShapes(line, pat, from) ==
    LET idx == {i \in from..Len(line) : ShapeAt(line, pat, i).end # 0}
    IN  IF idx = {} THEN <<>>
        ELSE LET m == ShapeAt(line, pat, MinOf(idx))
             IN  <<m>> \o FindShapes(line, pat, m.end)

\* label = match.group(2).strip(); label = label.strip('[]{}')
CleanLabel(raw) == StripChars(Strip(raw), {"[", "]", "{", "}"})

HasNode(nodes, id) == \E k \in 1..Len(nodes) : nodes[k].id = id
NodeOf(nodes, id) == nodes[CHOOSE k \in 1..Len(nodes) : nodes[k].id = id]

NoValue == [k |-> "null", v |-> <<>>]
NoSource == [present |-> FALSE, file |-> <<>>, line |-> 0,
             has_function |-> FALSE, function |-> <<>>]

\* GraphNode(id=node_id, label=label, type=node_type)
NewNode(id, label, type) ==
    [id |-> id, label |-> label, type |-> type,
     description |-> NoValue, model |-> NoValue, source |-> NoSource]

\* if node_id not in nodes: nodes[node_id] = GraphNode(...)   (first wins)
AddShape(nodes, m, type) ==
    IF HasNode(nodes, m.id) THEN nodes
    ELSE Append(nodes, NewNode(m.id, CleanLabel(m.label), type))

RECURSIVE AddShapes(_, _, _)
AddShapes(nodes, ms, type) ==
    IF ms = <<>> THEN nodes
    ELSE AddShapes(AddShape(nodes, Head(ms), type), Tail(ms), type)

\* The first pass over one line: the patterns from index k on, in order.
RECURSIVE ScanShapes(_, _, _)
ScanShapes(nodes, line, k) ==
    IF k > Len(node_patterns) THEN nodes
    ELSE ScanShapes(AddShapes(nodes, FindShapes(line, node_patterns[k], 1),
                              node_patterns[k].type),
                    line, k + 1)

\* The ends of the optional shape that may follow an edge's source at e, in
\* the order the regex tries them: \[[^\]]*\], \(\[[^\]]*\]\), \{[^}]*\},
\* \([^)]*\), and last no shape at all.
ShapeSkips(line, e) ==
    LET a1 == RunEndNot(line, {"]"}, e + 1)
        a2 == RunEndNot(line, {"]"}, e + 2)
        a3 == RunEndNot(line, {"}"}, e + 1)
        a4 == RunEndNot(line, {")"}, e + 1)
    IN  (IF MatchAt(line, <<"[">>, e) /\ MatchAt(line, <<"]">>, a1)
         THEN <<a1 + 1>> ELSE <<>>)
        \o (IF MatchAt(line, <<"(", "[">>, e) /\ MatchAt(line, <<"]", ")">>, a2)
            THEN <<a2 + 2>> ELSE <<>>)
        \o (IF MatchAt(line, <<"{">>, e) /\ MatchAt(line, <<"}">>, a3)
            THEN <<a3 + 1>> ELSE <<>>)
        \o (IF MatchAt(line, <<"(">>, e) /\ MatchAt(line, <<")">>, a4)
            THEN <<a4 + 1>> ELSE <<>>)
        \o <<e>>

NoLabel == [some |-> FALSE, text |-> <<>>]
NoEdge == [end |-> 0, source |-> <<>>, target |-> <<>>, label |-> NoLabel]

\* The first and the last match (end # 0) of a sequence of attempts.
FirstMatch(ms) ==
    LET idx == {k \in 1..Len(ms) : ms[k].end # 0}
    IN  IF idx = {} THEN NoEdge ELSE ms[MinOf(idx)]
LastMatch(ms) ==
    LET idx == {k \in 1..Len(ms) : ms[k].end # 0}
    IN  IF idx = {} THEN NoEdge ELSE ms[MaxOf(idx)]

\* (edge_id) at position t, after a label or none.
TargetAt(line, t, label) ==
    LET tEnd == RunEndNot(line, EDGE_ID_STOP, t)
    IN  IF tEnd > t
        THEN [end |-> tEnd, source |-> <<>>, target |-> SubSeq(line, t, tEnd - 1),
              label |-> label]
        ELSE NoEdge

\* (?:\|([^|]*)\|)?\s*(edge_id) at position b: a label between bars, or none
\* (a bar is no edge-id character, so an unclosed bar fails the target).
LabelAt(line, b) ==
    LET labEnd == RunEndNot(line, {"|"}, b + 1)
    IN  IF MatchAt(line, <<"|">>, b) /\ MatchAt(line, <<"|">>, labEnd)
        THEN TargetAt(line, RunEnd(line, WS, labEnd + 1),
                      [some |-> TRUE, text |-> SubSeq(line, b + 1, labEnd - 1)])
        ELSE TargetAt(line, b, NoLabel)

\* \s*-->\s*(?:\|([^|]*)\|)?\s*(edge_id) at position e.
ArrowAt(line, e) ==
    LET a == RunEnd(line, WS, e)
    IN  IF MatchAt(line, <<"-", "-", ">">>, a)
        THEN LabelAt(line, RunEnd(line, WS, a + 3))
        ELSE NoEdge

\* The first of the shape skips for which the arrow and the target follow.
ArrowsAt(line, skips) == FirstMatch([k \in 1..Len(skips) |-> ArrowAt(line, skips[k])])
ArrowAfterSource(line, e) == ArrowsAt(line, ShapeSkips(line, e))

WithSource(m, source) == [m EXCEPT !.source = source]

\* A match of edge_pattern that starts at i: the source is the longest
\* prefix of the run of edge-id characters at i (it ends before run) after
\* which the rest of the pattern matches (the greedy + gives characters back
\* one at a time).
EdgeIn(line, i, run) ==
    LastMatch([k \in 1..(run - i) |->
                  WithSource(ArrowAfterSource(line, i + k), SubSeq(line, i, i + k - 1))])
EdgeAt(line, i) == EdgeIn(line, i, RunEndNot(line, EDGE_ID_STOP, i))

\* A variant of EdgeLabel that loses every label.
EdgeLabelDropped(l) == NoLabel
\* label = match[1] if match[1] else None; label.strip() if label else None
EdgeLabel(l) ==
    IF l.some /\ l.text # <<>> THEN [some |-> TRUE, text |-> Strip(l.text)] ELSE NoLabel

\* re.findall(edge_pattern, line) and the append to raw_edges: the leftmost
\* match from a position on, then the matches after its end.
RECURSIVE FindEdges(_, _)
EdgesFrom(line, m) ==
    IF m.end = 0 THEN <<>>
    ELSE <<[source |-> m.source, target |-> m.target, label |-> EdgeLabel(m.label)]>>
            \o FindEdges(line, m.end)
FindEdges(line, from) ==
    EdgesFrom(line, FirstMatch([k \in 1..(Len(line) - from + 1) |->
                                   EdgeAt(line, from + k - 1)]))

\* Lines 233-254: the loop over the lines of the block.
RECURSIVE ScanNodes(_, _)
ScanNodes(nodes, lines) ==
    IF lines = <<>> THEN nodes
    ELSE ScanNodes(ScanShapes(nodes, Head(lines), 1), Tail(lines))
\* A variant of ScanEdges that records an edge only when both its endpoints
\* have a shape on its line.
ShapedOn(line, id) ==
    \E k \in 1..Len(node_patterns) :
        \E j \in 1..Len(FindShapes(line, node_patterns[k], 1)) :
            FindShapes(line, node_patterns[k], 1)[j].id = id
RECURSIVE ScanEdgesShaped(_)
ScanEdgesShaped(lines) ==
    IF lines = <<>> THEN <<>>
    ELSE SelectSeq(FindEdges(Head(lines), 1),
                   LAMBDA e : ShapedOn(Head(lines), e.source) /\ ShapedOn(Head(lines), e.target))
            \o ScanEdgesShaped(Tail(lines))
RECURSIVE ScanEdges(_)
ScanEdges(lines) ==
    IF lines = <<>> THEN <<>>
    ELSE FindEdges(Head(lines), 1) \o ScanEdges(Tail(lines))

----------------------------------------------------------------------------
(* sanitize_id                                                             *)

IdChar(c) == IsIn(LowerAlpha, c) \/ IsIn(Digits, c) \/ c = "_"
\* A variant of sanitize_id that keeps the underscores at both ends.
sanitize_id_unstripped(name) ==
    [i \in 1..Len(name) |-> IF IdChar(LowerChar(name[i])) THEN LowerChar(name[i]) ELSE "_"]
\* re.sub(r'[^a-z0-9_]', '_', name.lower()).strip('_')
sanitize_id(name) ==
    StripChars([i \in 1..Len(name) |->
                   IF IdChar(LowerChar(name[i])) THEN LowerChar(name[i]) ELSE "_"],
               {"_"})

----------------------------------------------------------------------------
(* yaml.safe_load                                                          *)
(*                                                                         *)
(* The loader is a library; it is modelled for the YAML the inputs below   *)
(* use: a document of unindented lines, each a block mapping entry         *)
(* "key: value" or a plain scalar; a value is a plain or double-quoted     *)
(* scalar, an integer, null, a one-line flow sequence [..] or a one-line   *)
(* flow mapping {k: v, ..} of such values (no comma inside a value).       *)
(* A plain scalar of the form dddd-dd-dd is a timestamp: the constructor    *)
(* builds datetime.date from it, which raises ValueError (no YAMLError)    *)
(* for a date that does not exist.  The whole document is parsed before    *)
(* anything is constructed, so a syntax error comes before that.           *)
(* A value is [k, v, fields]: its kind, its text, and for a mapping its    *)
(* fields in order of appearance.                                          *)

kwNull == <<"n","u","l","l">>
YNull == [k |-> "null", v |-> <<>>, fields |-> <<>>]
YError == [k |-> "error", v |-> <<>>, fields |-> <<>>]
YValueError == [k |-> "ValueError", v |-> <<>>, fields |-> <<>>]

\* The timestamp resolver's short form, and datetime.date(year, month, day).
IsDate(t) ==
    /\ Len(t) = 10
    /\ t[5] = "-" /\ t[8] = "-"
    /\ \A i \in {1, 2, 3, 4, 6, 7, 9, 10} : IsIn(Digits, t[i])
DaysIn(year, month) ==
    IF month \in {4, 6, 9, 11} THEN 30
    ELSE IF month # 2 THEN 31
    ELSE IF year % 4 = 0 /\ (year % 100 # 0 \/ year % 400 = 0) THEN 29 ELSE 28
DateExists(year, month, day) ==
    year >= 1 /\ month \in 1..12 /\ day >= 1 /\ day <= DaysIn(year, month)
YDate(t) ==
    IF DateExists(ToInt(SubSeq(t, 1, 4)), ToInt(SubSeq(t, 6, 7)), ToInt(SubSeq(t, 9, 10)))
    THEN [k |-> "date", v |-> t, fields |-> <<>>]
    ELSE YValueError

\* A scalar or flow sequence.
YScalar(t) ==
    IF t = <<>> \/ t = kwNull \/ t = <<"~">> THEN YNull
    ELSE IF IsDecimal(t) THEN [k |-> "int", v |-> t, fields |-> <<>>]
    ELSE IF IsDate(t) THEN YDate(t)
    ELSE IF t[1] = "[" THEN
        IF t[Len(t)] = "]"
        THEN [k |-> "list", v |-> SubSeq(t, 2, Len(t) - 1), fields |-> <<>>]
        ELSE YError
    ELSE IF t[1] = "\"" THEN
        IF Len(t) >= 2 /\ t[Len(t)] = "\""
        THEN [k |-> "str", v |-> SubSeq(t, 2, Len(t) - 1), fields |-> <<>>]
        ELSE YError
    ELSE IF t[1] = "{" THEN
        IF t[Len(t)] = "}"
        THEN [k |-> "dict", v |-> SubSeq(t, 2, Len(t) - 1), fields |-> <<>>]
        ELSE YError
    ELSE [k |-> "str", v |-> t, fields |-> <<>>]

\* The position of the ':' that ends a key ("key: value" or "key:"), else 0.
KeyEnd(t) ==
    LET i == Find(t, <<":", " ">>)
    IN  IF i # 0 THEN i
        ELSE IF t # <<>> /\ t[Len(t)] = ":" THEN Len(t) ELSE 0

\* A key: quotes are dropped.
YKey(t) ==
    IF Len(t) >= 2 /\ t[1] = "\"" /\ t[Len(t)] = "\"" THEN SubSeq(t, 2, Len(t) - 1) ELSE t

\* The entries "k: v" of a flow mapping's inside, in order.
RECURSIVE YFlowFields(_)
YFlowFields(pieces) ==
    IF pieces = <<>> THEN <<>>
    ELSE LET t == Strip(Head(pieces))
             e == KeyEnd(t)
             f == IF e = 0
                  THEN [key |-> YKey(t), val |-> YNull]
                  ELSE [key |-> YKey(Strip(Upto(t, e - 1))),
                        val |-> YScalar(Strip(From(t, e + 1)))]
         IN  <<f>> \o YFlowFields(Tail(pieces))

\* A value: a flow mapping with its fields, or a scalar.
YValue(t) ==
    IF t # <<>> /\ t[1] = "{" THEN
        IF t[Len(t)] # "}" THEN YError
        ELSE LET inner == Strip(SubSeq(t, 2, Len(t) - 1))
                 fs == IF inner = <<>> THEN <<>> ELSE YFlowFields(Split(inner, <<",">>))
             IN  IF \E i \in 1..Len(fs) : fs[i].val.k = "error" THEN YError
                 ELSE IF \E i \in 1..Len(fs) : fs[i].val.k = "ValueError"
                 THEN YValueError
                 ELSE [k |-> "dict", v |-> inner, fields |-> fs]
    ELSE YScalar(t)

\* The block mapping entry of a line.
YEntry(line) ==
    LET e == KeyEnd(line)
    IN  [key |-> YKey(Strip(Upto(line, e - 1))), val |-> YValue(Strip(From(line, e + 1)))]

RECURSIVE NonBlank(_)
NonBlank(lines) ==
    IF lines = <<>> THEN <<>>
    ELSE (IF Strip(Head(lines)) = <<>> THEN <<>> ELSE <<Strip(Head(lines))>>)
            \o NonBlank(Tail(lines))

\* The loaded document: a dict (its entries as fields), a scalar, the
\* YAMLError or the ValueError of a date.  Entries and plain scalar lines do not mix; several plain
\* lines fold into one string.
yaml_safe_load(text) ==
    LET lines == NonBlank(Split(text, <<NL>>))
        isEntry(l) == l[1] # "{" /\ l[1] # "[" /\ l[1] # "\"" /\ KeyEnd(l) # 0
        entries == [i \in 1..Len(lines) |-> YEntry(lines[i])]
    IN  IF lines = <<>> THEN YNull
        ELSE IF \A i \in 1..Len(lines) : isEntry(lines[i])
        THEN IF \E i \in 1..Len(lines) : entries[i].val.k = "error" THEN YError
             ELSE IF \E i \in 1..Len(lines) : entries[i].val.k = "ValueError"
             THEN YValueError
             ELSE [k |-> "dict", v |-> <<>>, fields |-> entries]
        ELSE IF \E i \in 1..Len(lines) : isEntry(lines[i]) THEN YError
        ELSE IF Len(lines) = 1 THEN YValue(lines[1])
        ELSE IF \E i \in 1..Len(lines) : lines[i][1] \in {"{", "[", "\"", "-"} THEN YError
        ELSE [k |-> "str", v |-> Join(lines, <<" ">>), fields |-> <<>>]

\* Python truthiness of a loaded value.
Truthy(y) ==
    CASE y.k = "null" -> FALSE
      [] y.k = "int" -> ToInt(y.v) # 0
      [] y.k = "dict" -> y.fields # <<>> \/ y.v # <<>>
      [] OTHER -> y.v # <<>>

EmptyDict == [k |-> "dict", v |-> <<>>, fields |-> <<>>]

\* A variant of OrEmpty that falls back to the empty mapping when the body
\* does not load.
OrEmptyLenient(y) ==
    IF y.k = "ValueError" THEN y ELSE IF y.k # "error" /\ Truthy(y) THEN y ELSE EmptyDict
\* node_metadata = yaml.safe_load(metadata_part) or {}
OrEmpty(y) ==
    IF y.k \in {"error", "ValueError"} THEN y ELSE IF Truthy(y) THEN y ELSE EmptyDict
LoadMetadata(metadata_part) == OrEmpty(yaml_safe_load(metadata_part))

\* key in d, d[key] for a dict value: the last entry of a repeated key wins.
\* A key of digits is loaded as an int and equals no string.
HasKey(d, key) == \E i \in 1..Len(d.fields) : d.fields[i].key = key /\ ~IsDecimal(key)
Get(d, key) == d.fields[MaxOf({i \in 1..Len(d.fields) : d.fields[i].key = key})].val

----------------------------------------------------------------------------
(* parse_flowchart: enrichment with the metadata and edge validation       *)

VALID_TYPES == {tStep, tLlm, tDecision}
kType == <<"t","y","p","e">>
kModel == <<"m","o","d","e","l">>
kDescription == <<"d","e","s","c","r","i","p","t","i","o","n">>
kFile == <<"f","i","l","e">>
kLine == <<"l","i","n","e">>
kFunction == <<"f","u","n","c","t","i","o","n">>
COLONS == <<":", ":">>

\* The scalar part of a loaded value, as a node field holds it.
Scalar(y) == [k |-> y.k, v |-> y.v]

\* The items of a loaded list.
ListItems(y) ==
    LET ps == IF y.v = <<>> THEN <<>> ELSE Split(y.v, <<",">>)
    IN  [i \in 1..Len(ps) |-> YScalar(Strip(ps[i]))]

\* node_id in a loaded list: the items equal to it.
InList(items, node_id) ==
    \E i \in 1..Len(items) : items[i].k = "str" /\ items[i].v = node_id

\* node_id in metadata: the answer, or the TypeError of a value that is no
\* container.
Lookup(metadata, node_id) ==
    CASE metadata.k = "dict" -> [err |-> "none", found |-> HasKey(metadata, node_id)]
      [] metadata.k = "str" -> [err |-> "none", found |-> Contains(metadata.v, node_id)]
      [] metadata.k = "list" ->
            [err |-> "none", found |-> InList(ListItems(metadata), node_id)]
      [] OTHER -> [err |-> "TypeError", found |-> FALSE]

\* SourceLocation(file=meta["file"], line=meta["line"],
\* function=meta.get("function")) under the validation of the pydantic
\* model: file a str, line an int or a string of digits, function a str or
\* None.
FileValid(y) == y.k = "str"
LineValid(y) == y.k = "int" \/ (y.k = "str" /\ IsDecimal(y.v))
FunctionValid(y) == y.k \in {"str", "null"}

SourceOf(file, line, fn) ==
    [present |-> TRUE, file |-> file, line |-> line,
     has_function |-> fn.k = "str", function |-> fn.v]
MetaSource(meta) ==
    SourceOf(Get(meta, kFile).v, ToInt(Get(meta, kLine).v),
             IF HasKey(meta, kFunction) THEN Get(meta, kFunction) ELSE YNull)

\* Lines 284-295: the source inferred from path::function[::line].
PartsSource(parts) ==
    [present |-> TRUE, file |-> parts[1],
     line |-> IF Len(parts) >= 3 /\ IsDigit(parts[3]) THEN ToInt(parts[3]) ELSE 0,
     has_function |-> TRUE, function |-> parts[2]]
InferredSource(node_id) == PartsSource(Split(node_id, COLONS))

\* int(parts[2]) of a segment that isdigit() accepts and int() does not:
\* the ValueError of line 290.
IntFails(parts) == Len(parts) >= 3 /\ IsDigit(parts[3]) /\ ~IsDecimal(parts[3])

\* if not node.source and '::' in node_id
Inferring(node) == ~node.source.present /\ Contains(node.id, COLONS)
Infer(node) ==
    IF Inferring(node) THEN [node EXCEPT !.source = InferredSource(node.id)] ELSE node

\* Lines 265-270: meta["type"] not in VALID_TYPES needs a hashable value.
TypeUnhashable(meta) == HasKey(meta, kType) /\ Get(meta, kType).k \in {"list", "dict"}
TypeValid(meta_type) == meta_type.k = "str" /\ meta_type.v \in VALID_TYPES
TypeNormalized(meta) == HasKey(meta, kType) /\ ~TypeValid(Get(meta, kType))
ResolvedType(meta_type) == IF TypeValid(meta_type) THEN meta_type.v ELSE tStep
SetType(node, meta) ==
    IF HasKey(meta, kType) THEN [node EXCEPT !.type = ResolvedType(Get(meta, kType))]
    ELSE node
\* Lines 272-275.
SetModel(node, meta) ==
    IF HasKey(meta, kModel) THEN [node EXCEPT !.model = Scalar(Get(meta, kModel))] ELSE node
SetDescription(node, meta) ==
    IF HasKey(meta, kDescription)
    THEN [node EXCEPT !.description = Scalar(Get(meta, kDescription))] ELSE node
\* Lines 277-282.
HasLoc(meta) == HasKey(meta, kFile) /\ HasKey(meta, kLine)
LocValid(meta) ==
    /\ FileValid(Get(meta, kFile))
    /\ LineValid(Get(meta, kLine))
    /\ (HasKey(meta, kFunction) => FunctionValid(Get(meta, kFunction)))
SetSource(node, meta) ==
    IF HasLoc(meta) THEN [node EXCEPT !.source = MetaSource(meta)] ELSE node

\* What a turn of the enrichment loop ends with: the exception or "none",
\* the node, and whether its type was normalized.
Enriched(node, normalized) == [err |-> "none", node |-> node, normalized |-> normalized]
Failed(err, node) == [err |-> err, node |-> node, normalized |-> FALSE]

\* Lines 262-282: the overlay of the override record on a node, if it is a
\* dict.
Overlay(node, meta) ==
    IF meta.k # "dict" THEN Enriched(node, FALSE)
    ELSE IF TypeUnhashable(meta) THEN Failed("TypeError", node)
    ELSE IF HasLoc(meta) /\ ~LocValid(meta) THEN Failed("ValidationError", node)
    ELSE Enriched(SetSource(SetDescription(SetModel(SetType(node, meta), meta), meta), meta),
                  TypeNormalized(meta))

\* Lines 261-262: the override record of a node that metadata holds.
Override(node, metadata, l) ==
    IF l.err # "none" THEN Failed(l.err, node)
    ELSE IF ~l.found THEN Enriched(node, FALSE)
    ELSE IF metadata.k # "dict"
    THEN \* metadata[node_id] of a str or a list
         Failed("TypeError", node)
    ELSE Overlay(node, Get(metadata, node.id))

\* Lines 284-295 after the override of a node: the inference, or the
\* exception of either.
InferAfter(e) ==
    IF e.err # "none" THEN e
    ELSE IF Inferring(e.node) /\ IntFails(Split(e.node.id, COLONS))
    THEN Failed("ValueError", e.node)
    ELSE [e EXCEPT !.node = Infer(@)]

\* One turn of the loop of lines 260-295 for a node: the override, then the
\* inference.
Enrich(node, metadata) == InferAfter(Override(node, metadata, Lookup(metadata, node.id)))

\* The enrichment loop: the nodes enriched so far, the ids whose type was
\* normalized, and the first exception.
Accumulate(acc, e) ==
    [err |-> e.err, nodes |-> Append(acc.nodes, e.node),
     normalized |-> IF e.normalized THEN Append(acc.normalized, e.node.id)
                    ELSE acc.normalized]
RECURSIVE EnrichAll(_, _, _)
EnrichAll(nodes, metadata, acc) ==
    IF nodes = <<>> \/ acc.err # "none" THEN acc
    ELSE EnrichAll(Tail(nodes), metadata, Accumulate(acc, Enrich(Head(nodes), metadata)))

\* A variant of ValidEdges that keeps every raw edge.
KeepAllEdges(raw_edges, nodes) == raw_edges
\* Lines 299-311: the edges whose source is a node of the block, the
\* targets that are no node of the block, the edges skipped.
RECURSIVE ValidEdges(_, _)
ValidEdges(raw_edges, nodes) ==
    IF raw_edges = <<>> THEN <<>>
    ELSE (IF HasNode(nodes, Head(raw_edges).source) THEN <<Head(raw_edges)>> ELSE <<>>)
            \o ValidEdges(Tail(raw_edges), nodes)
RECURSIVE CrossBatchTargets(_, _)
CrossBatchTargets(raw_edges, nodes) ==
    IF raw_edges = <<>> THEN <<>>
    ELSE (IF HasNode(nodes, Head(raw_edges).source) /\ ~HasNode(nodes, Head(raw_edges).target)
          THEN <<Head(raw_edges).target>> ELSE <<>>)
            \o CrossBatchTargets(Tail(raw_edges), nodes)
RECURSIVE SkippedEdges(_, _)
SkippedEdges(raw_edges, nodes) ==
    IF raw_edges = <<>> THEN <<>>
    ELSE (IF ~HasNode(nodes, Head(raw_edges).source) THEN <<Head(raw_edges)>> ELSE <<>>)
            \o SkippedEdges(Tail(raw_edges), nodes)

\* A variant of NodesWithoutSource that lists every node.
NodesWithoutSourceAll(nodes) == [i \in 1..Len(nodes) |-> nodes[i].id]
\* nodes_without_source = [n.id for n in nodes.values() if not n.source]
RECURSIVE NodesWithoutSource(_)
NodesWithoutSource(nodes) ==
    IF nodes = <<>> THEN <<>>
    ELSE (IF ~Head(nodes).source.present THEN <<Head(nodes).id>> ELSE <<>>)
            \o NodesWithoutSource(Tail(nodes))

\* Lines 299-321: the result of the block from its raw edges and its
\* enriched nodes.
Validate(raw_edges, e) ==
    IF e.err # "none"
    THEN [err |-> e.err, nodes |-> <<>>, edges |-> <<>>, raw_edges |-> raw_edges,
          normalized |-> e.normalized, skipped |-> <<>>,
          cross_batch_targets |-> <<>>, nodes_without_source |-> <<>>]
    ELSE [err |-> "none", nodes |-> e.nodes,
          edges |-> ValidEdges(raw_edges, e.nodes),
          raw_edges |-> raw_edges,
          normalized |-> e.normalized,
          skipped |-> SkippedEdges(raw_edges, e.nodes),
          cross_batch_targets |-> CrossBatchTargets(raw_edges, e.nodes),
          nodes_without_source |-> NodesWithoutSource(e.nodes)]

\* parse_flowchart(lines, metadata): the nodes and valid edges of a block
\* with what it prints, or the exception it ends with.
parse_flowchart(lines, metadata) ==
    Validate(ScanEdges(lines),
             EnrichAll(ScanNodes(<<>>, lines), metadata,
                       [err |-> "none", nodes |-> <<>>, normalized |-> <<>>]))

----------------------------------------------------------------------------
(* The inputs: texts built from lines                                      *)

lnFlowchart == <<"f","l","o","w","c","h","a","r","t"," ","T","D">>
lnWorkflowW == <<"%","%"," ","W","o","r","k","f","l","o","w",":"," ","W">>
lnAB == <<"A","[","x","]"," ","-","-",">"," ","B","(","[","m","]",")">>
lnBC == <<"B"," ","-","-",">"," ","C","{","y","}">>
lnAC == <<"A","{","z","}"," ","-","-",">"," ","C">>
lnXA == <<"X"," ","-","-",">"," ","A">>
lnCA == <<"C"," ","-","-",">","|","l","|"," ","A","[","q","]">>
lnPlainEdge == <<"A","[","x","]"," ","-","-",">"," ","B">>
lnSep == SEP
lnMetadata == METADATA
lnInlineSep == <<"A"," ","-","-","-"," ","B">>
lnTypeLlm == <<"A",":"," ","{","t","y","p","e",":"," ","l","l","m","}">>
lnTypeOther == <<"A",":"," ","{","t","y","p","e",":"," ","z","z","}">>
lnTypeList == <<"A",":"," ","{","t","y","p","e",":"," ","[","q","]","}">>
lnTypeModel == <<"A",":"," ","{","t","y","p","e",":"," ","l","l","m",","," ","m","o","d","e","l",":"," ","g","}">>
lnModelB == <<"B",":"," ","{","t","y","p","e",":"," ","d","e","c","i","s","i","o","n",","," ","m","o","d","e","l",":"," ","h","}">>
lnModelInt == <<"C",":"," ","{","m","o","d","e","l",":"," ","4","}">>
lnLoc == <<"A",":"," ","{","f","i","l","e",":"," ","f",","," ","l","i","n","e",":"," ","1","}">>
lnLocBad == <<"B",":"," ","{","f","i","l","e",":"," ","f",","," ","l","i","n","e",":"," ","x","}">>
lnNotDict == <<"B",":"," ","5">>
lnInt == <<"7">>
lnDate == <<"C",":"," ","2","0","2","3","-","0","2","-","3","0">>
lnOpenBrace == <<"C",":"," ","{">>
\* One identifier with two shapes on one line.
lnSame == <<"A","[","x","]"," ","-","-",">"," ","A","{","y","}">>
\* Identifiers of the form path::function[::line].
lnPath == <<"p",":",":","q",":",":","7","[","x","]"," ","-","-",">"," ","p",":",":","q","(","y",")">>
lnPathWord == <<"p",":",":","q",":",":","z","{","x","}">>
lnPathSup == <<"p",":",":","q",":",":",SUP2,"[","x","]">>
lnWorkflowQ == <<"%","%"," ","W","o","r","k","f","l","o","w",":"," ","Q"," ","r","!">>
lnPathModel == <<"p",":",":","q",":"," ","{","m","o","d","e","l",":"," ","g","}">>
lnPathNoModel == <<"p",":",":","q",":",":","7",":"," ","{","m","o","d","e","l",":"," ","\"","\"","}">>

\* The end-to-end example of the parser's documentation.
exDiagram ==
    << <<"f","l","o","w","c","h","a","r","t"," ","T","D">>,
       <<"%","%"," ","W","o","r","k","f","l","o","w",":"," ","D","e","m","o">>,
       <<"A","[","S","t","a","r","t","]"," ","-","-",">"," ","B","(","[","C","a","l","l"," ","M","o","d","e","l","]",")">>,
       <<"B"," ","-","-",">"," ","C","{","O","k","?","}">>,
       <<"C"," ","-","-",">","|","y","e","s","|"," ","D","[","D","o","n","e","]">>,
       <<>> >>
exMetadata ==
    << <<"A",":"," ","{","f","i","l","e",":"," ","\"","m",".","p","y","\"",","," ","l","i","n","e",":"," ","1",","," ","f","u","n","c","t","i","o","n",":"," ","\"","f","\"","}">>,
       <<"B",":"," ","{","f","i","l","e",":"," ","\"","m",".","p","y","\"",","," ","l","i","n","e",":"," ","2",","," ","f","u","n","c","t","i","o","n",":"," ","\"","g","\"",","," ","m","o","d","e","l",":"," ","\"","g","p","t","\"","}">>,
       <<"C",":"," ","{","f","i","l","e",":"," ","\"","m",".","p","y","\"",","," ","l","i","n","e",":"," ","3",","," ","f","u","n","c","t","i","o","n",":"," ","\"","h","\"","}">>,
       <<"D",":"," ","{","f","i","l","e",":"," ","\"","m",".","p","y","\"",","," ","l","i","n","e",":"," ","4",","," ","f","u","n","c","t","i","o","n",":"," ","\"","i","\"","}">> >>
Text(lines) == Join(lines, <<NL>>)
Example == Text(exDiagram \o <<lnSep, lnMetadata>> \o exMetadata)
\* The same text without its separator line: longer than the preview.
ExampleNoSeparator == Text(exDiagram \o <<lnMetadata>> \o exMetadata)

\* The example with a metadata body, longer than the preview, that does not
\* load.
ExampleBadMetadata ==
    Text(exDiagram \o <<lnSep, lnMetadata>> \o exMetadata \o exMetadata \o <<lnOpenBrace>>)

\* All sequences over the set S of length at most n.
RECURSIVE SeqsUpTo(_, _)
SeqsUpTo(S, n) ==
    IF n = 0 THEN {<<>>}
    ELSE LET shorter == SeqsUpTo(S, n - 1)
         IN  shorter \cup {Append(q, x) : q \in {r \in shorter : Len(r) = n - 1}, x \in S}

MaxTailLines == 3
MaxMetaLines == 2
MaxDiagramLines == 3
MaxAssemblyLines == 2
MaxHeadLines == 4
MaxFenceLines == 3

TailLines == {lnSep, lnMetadata, lnTypeLlm, lnInlineSep, lnOpenBrace}
MetaLines == {lnTypeLlm, lnTypeOther, lnTypeList, lnModelB, lnModelInt, lnLoc,
              lnLocBad, lnNotDict, lnInt, lnOpenBrace, lnDate}
DiagramLines == {lnFlowchart, lnWorkflowW, lnAB, lnBC, lnAC, lnXA, lnCA}

\* What the generator may put around its answer: nothing, a fence pair, or
\* a "no workflow" sentinel in front.
Wrappers ==
    { <<<<>>, <<>>>>,
      <<<<BT,BT,BT,"m","e","r","m","a","i","d","\n">>, <<"\n",BT,BT,BT>>>>,
      <<<<"N","o","_","L","l","m","_","W","o","r","k","f","l","o","w","\n">>, <<>>>>,
      <<<<" "," ","n","o"," ","l","l","m",":"," ">>, <<>>>> }

\* A small diagram followed by any lines that may or may not separate and
\* carry metadata, wrapped.
SegmentInputs ==
    { w[1] \o Text(<<lnFlowchart, lnPlainEdge>> \o t) \o w[2] :
        w \in Wrappers, t \in SeqsUpTo(TailLines, MaxTailLines) }
\* A fixed diagram with every kind of metadata body.
MetadataInputs ==
    { Text(<<lnFlowchart, lnAB, lnBC, lnSep, lnMetadata>> \o m) :
        m \in SeqsUpTo(MetaLines, MaxMetaLines) }
\* Every diagram, of one or several blocks, with a fixed metadata body.
DiagramInputs ==
    { Text(d \o <<lnSep, lnMetadata, lnTypeModel>>) :
        d \in SeqsUpTo(DiagramLines, MaxDiagramLines) }

\* Blocks whose identifiers repeat, carry paths or share models, with and
\* without overrides.
AssemblyLines == {lnFlowchart, lnWorkflowQ, lnAB, lnSame, lnPath, lnPathWord, lnPathSup}
AssemblyMetadata == {<<>>, <<lnTypeModel, lnModelB, lnPathModel, lnPathNoModel>>}
AssemblyInputs ==
    { Text(<<lnFlowchart>> \o d \o <<lnSep, lnMetadata>> \o m) :
        d \in SeqsUpTo(AssemblyLines, MaxAssemblyLines), m \in AssemblyMetadata }
\* Texts that begin with a separator or a 'metadata:' line.
HeadLines == {lnSep, lnMetadata, lnTypeLlm}
HeadInputs == { Text(t) : t \in SeqsUpTo(HeadLines, MaxHeadLines) }

\* Two blocks, the first of them named, that define one identifier with
\* different shapes and labels.
TwoBlocksOneNamed ==
    Text(<<lnFlowchart, lnWorkflowQ, lnAB, lnFlowchart, lnAC, lnSep, lnMetadata>>)
\* Two blocks that define one identifier, the first of them twice on a line.
TwoBlocksSameLine ==
    Text(<<lnFlowchart, lnSame, lnFlowchart, lnAC, lnSep, lnMetadata>>)

\* Texts of text lines and fence lines, bare or with a language tag.
lnText == <<"a", " ", "b">>
FenceLines == {lnText, FENCE, FENCE \o kwYaml, FENCE \o kwMermaid}
FenceInputs == { Text(t) : t \in SeqsUpTo(FenceLines, MaxFenceLines) }

Inputs == SegmentInputs \cup MetadataInputs \cup DiagramInputs
              \cup AssemblyInputs \cup HeadInputs \cup FenceInputs
              \cup {Example, ExampleNoSeparator, ExampleBadMetadata, TwoBlocksOneNamed,
                    TwoBlocksSameLine}

\* The texts of invocations that run side by side: a graph of one block, one
\* of two blocks that share identifiers with it, a sentinel, a text without
\* separator and one whose metadata does not load.
ParInputs ==
    { Text(<<lnFlowchart, lnAB, lnSep, lnMetadata, lnTypeModel>>),
      Text(<<lnFlowchart, lnBC, lnFlowchart, lnAC, lnSep, lnMetadata, lnModelB>>),
      kwNoLlmWorkflow,
      Text(<<lnFlowchart, lnPlainEdge>>),
      Text(<<lnFlowchart, lnAB, lnSep, lnMetadata, lnOpenBrace>>) }
\* How many other invocations run beside the one that holds the processor.
MaxPeers == 1

----------------------------------------------------------------------------
(* One invocation of parse_mermaid_response as a state machine             *)

VARIABLES
    input,              \* the argument of the invocation
    pc,                 \* where the invocation stands
    response,           \* the cleaned text
    diagram_part,
    metadata_part,
    rule,               \* the branch of the segmentation that split (0: none yet)
    node_metadata,
    workflows,          \* the blocks still to process
    blocks,             \* per processed block: what parse_flowchart found
    all_nodes,
    all_edges,
    workflow_metadata,
    printed,            \* the diagnostics printed so far
    outcome,            \* what the invocation returned or raised
    peers,              \* the frames of the other invocations, not running now
    \* main.py, analyze_workflow: one /analyze request
    req_pc,             \* where the request stands
    file_paths,         \* request.file_paths
    result,             \* the generator's last answer, trimmed
    attempt,            \* the loop variable of the retry loop
    generator_calls,    \* the calls of gemini_client.analyze_workflow so far
    engine_calls,       \* the calls of parse_mermaid_response so far
    http_status,        \* the status the request ended with (0: not ended)
    graph,              \* the graph of the response
    engine,             \* what parse_mermaid_response answers to each text of the request
    \* database.py: the trial_devices row of one machine and the sessions
    \* that call increment_trial_usage for it
    trial_device,
    sessions,
    granted_today,      \* the calls of the day that returned without error
    \* database.py: the users row of one user and the last call on it
    user,
    stored,             \* the last token stored and whether it still stands
    last_call

parserVars == <<input, pc, response, diagram_part, metadata_part, rule, node_metadata,
                workflows, blocks, all_nodes, all_edges, workflow_metadata, printed,
                outcome, peers>>
requestVars == <<req_pc, file_paths, result, attempt, generator_calls, engine_calls,
                 http_status, graph, engine>>
trialVars == <<trial_device, sessions, granted_today>>
tokenVars == <<user, stored, last_call>>
\* What an invocation of the parser leaves alone.
outside == <<requestVars, trialVars, tokenVars>>
vars == <<parserVars, requestVars, trialVars, tokenVars>>

NoPrints == [normalized |-> <<>>, skipped |-> <<>>, cross_batch_targets |-> <<>>,
             nodes_without_source |-> <<>>]
NoOutcome == [kind |-> "none", nodes |-> <<>>, edges |-> <<>>, llms_detected |-> <<>>,
              workflows |-> <<>>, preview |-> <<>>]
\* WorkflowGraph(nodes=[], edges=[], llms_detected=[], workflows=[])
EmptyGraph == [NoOutcome EXCEPT !.kind = "Graph"]
Raise(kind, preview) == [NoOutcome EXCEPT !.kind = kind, !.preview = preview]

\* No request is under way, no session calls the trial functions, and no
\* call is made on the users row.
NoRequest ==
    /\ req_pc = "idle"
    /\ file_paths = <<>>
    /\ result = <<>>
    /\ attempt = 0
    /\ generator_calls = 0
    /\ engine_calls = 0
    /\ http_status = 0
    /\ graph = NoOutcome
    /\ engine = <<>>
NoTrial ==
    /\ trial_device = [exists |-> FALSE, analyses_today |-> 0, today |-> TRUE]
    /\ sessions = <<>>
    /\ granted_today = 0
NoTokens ==
    /\ user = [exists |-> FALSE, hashed_refresh_token |-> NoValue, token_family |-> NoValue,
               token_version |-> 0]
    /\ stored = [token |-> <<>>, family |-> NoValue, stands |-> FALSE]
    /\ last_call = [op |-> "none", token |-> <<>>, family |-> NoValue,
                    valid |-> FALSE, returned |-> NoValue, error |-> "none"]

Init ==
    /\ input \in Inputs
    /\ pc = "start"
    /\ response = <<>>
    /\ diagram_part = <<>>
    /\ metadata_part = <<>>
    /\ rule = 0
    /\ node_metadata = EmptyDict
    /\ workflows = <<>>
    /\ blocks = <<>>
    /\ all_nodes = <<>>
    /\ all_edges = <<>>
    /\ workflow_metadata = <<>>
    /\ printed = NoPrints
    /\ outcome = NoOutcome
    /\ peers = <<>>
    /\ NoRequest /\ NoTrial /\ NoTokens

\* Lines 62-68: strip the wrappers; the sentinel ends the invocation with the
\* empty graph.
Preprocess ==
    /\ pc = "start"
    /\ response' = strip_markdown(input)
    /\ IF IsSentinel(response')
       THEN pc' = "done" /\ outcome' = EmptyGraph
       ELSE pc' = "segment" /\ outcome' = outcome
    /\ UNCHANGED <<input, diagram_part, metadata_part, rule, node_metadata, workflows,
                   blocks, all_nodes, all_edges, workflow_metadata, printed, peers, outside>>

\* Lines 73-102: split, or raise for want of a separator.
Segmenting ==
    /\ pc = "segment"
    /\ \E sg \in {Segment(response)} :
           /\ rule' = sg.rule
           /\ diagram_part' = sg.diagram_part
           /\ metadata_part' = sg.metadata_part
           /\ IF sg.ok
              THEN pc' = "metadata" /\ outcome' = outcome
              ELSE pc' = "done" /\ outcome' = Raise("MissingSeparator", sg.preview)
    /\ UNCHANGED <<input, response, node_metadata, workflows, blocks, all_nodes,
                   all_edges, workflow_metadata, printed, peers, outside>>

\* Lines 105-128: clean the metadata part and load it.
MetadataParsing ==
    /\ pc = "metadata"
    /\ metadata_part' = CleanMetadata(metadata_part)
    /\ \E y \in {LoadMetadata(metadata_part')} :
           IF y.k = "error"
           THEN /\ pc' = "done"
                /\ outcome' = Raise("InvalidMetadataBody", Preview(metadata_part'))
                /\ node_metadata' = node_metadata
           ELSE IF y.k = "ValueError"
           THEN \* no YAMLError: line 124 does not catch it
                /\ pc' = "done"
                /\ outcome' = Raise("ValueError", <<>>)
                /\ node_metadata' = node_metadata
           ELSE /\ pc' = "diagram"
                /\ outcome' = outcome
                /\ node_metadata' = y
    /\ UNCHANGED <<input, response, diagram_part, rule, workflows, blocks, all_nodes,
                   all_edges, workflow_metadata, printed, peers, outside>>

\* Line 131.
DiagramParsing ==
    /\ pc = "diagram"
    /\ workflows' = parse_workflows(diagram_part)
    /\ pc' = "blocks"
    /\ UNCHANGED <<input, response, diagram_part, metadata_part, rule, node_metadata,
                   blocks, all_nodes, all_edges, workflow_metadata, printed, outcome,
                   peers, outside>>

\* A variant of MergeNodes that does not deduplicate.
MergeNodesAll(all, new) == all \o new
\* for node in workflow_nodes: if node.id not in all_nodes: all_nodes[node.id] = node
RECURSIVE MergeNodes(_, _)
MergeNodes(all, new) ==
    IF new = <<>> THEN all
    ELSE MergeNodes(IF HasNode(all, Head(new).id) THEN all ELSE Append(all, Head(new)),
                    Tail(new))

Ids(nodes) == [i \in 1..Len(nodes) |-> nodes[i].id]
kwWorkflowPrefix == <<"w","o","r","k","f","l","o","w","_">>
PRINTED_NODES == 5

\* A variant of AddWorkflow that lists only the ids no earlier workflow lists.
AddWorkflowNewOnly(wm, name, nodes) ==
    IF nodes # <<>>
    THEN Append(wm, [id |-> kwWorkflowPrefix \o sanitize_id(name), name |-> name,
                     nodeIds |-> SelectSeq(Ids(nodes),
                                    LAMBDA id : \A k \in 1..Len(wm) :
                                        \A j \in 1..Len(wm[k].nodeIds) : wm[k].nodeIds[j] # id)])
    ELSE wm
\* A variant of AddWorkflow that emits a workflow for a block without nodes.
AddWorkflowAlways(wm, name, nodes) ==
    Append(wm, [id |-> kwWorkflowPrefix \o sanitize_id(name), name |-> name,
                nodeIds |-> Ids(nodes)])
\* Lines 149-157.
AddWorkflow(wm, name, nodes) ==
    IF nodes # <<>>
    THEN Append(wm, [id |-> kwWorkflowPrefix \o sanitize_id(name), name |-> name,
                     nodeIds |-> Ids(nodes)])
    ELSE wm

\* What a call of parse_flowchart prints (lines 268, 311, 314, 319).
AddPrints(p, r) ==
    [normalized |-> p.normalized \o r.normalized,
     skipped |-> p.skipped \o r.skipped,
     cross_batch_targets |-> p.cross_batch_targets \o r.cross_batch_targets,
     nodes_without_source |-> p.nodes_without_source
        \o Upto(r.nodes_without_source,
                IF Len(r.nodes_without_source) < PRINTED_NODES
                THEN Len(r.nodes_without_source) ELSE PRINTED_NODES)]

\* One turn of the loop of lines 138-157 for the next block.
ProcessBlock ==
    /\ pc = "blocks"
    /\ workflows # <<>>
    /\ \E w \in {Head(workflows)} :
       \E r \in {parse_flowchart(w.lines, node_metadata)} :
           /\ printed' = AddPrints(printed, r)
           /\ blocks' = Append(blocks, [name |-> w.name, lines |-> w.lines,
                                        nodes |-> r.nodes, nodeIds |-> Ids(r.nodes),
                                        raw_edges |-> r.raw_edges,
                                        nodes_without_source |-> r.nodes_without_source,
                                        err |-> r.err])
           /\ IF r.err # "none"
              THEN /\ pc' = "done"
                   /\ outcome' = Raise(r.err, <<>>)
                   /\ UNCHANGED <<workflows, all_nodes, all_edges, workflow_metadata>>
              ELSE /\ pc' = pc
                   /\ outcome' = outcome
                   /\ workflows' = Tail(workflows)
                   /\ all_nodes' = MergeNodes(all_nodes, r.nodes)
                   /\ all_edges' = all_edges \o r.edges
                   /\ workflow_metadata' = AddWorkflow(workflow_metadata, w.name, r.nodes)
    /\ UNCHANGED <<input, response, diagram_part, metadata_part, rule, node_metadata,
                   peers, outside>>

\* A variant of Llms that reads the model of llm nodes only.
RECURSIVE LlmsOfLlmNodes(_)
LlmsOfLlmNodes(nodes) ==
    IF nodes = <<>> THEN <<>>
    ELSE (IF Head(nodes).type = tLlm /\ Head(nodes).model.k # "null"
          THEN <<Head(nodes).model>> ELSE <<>>) \o LlmsOfLlmNodes(Tail(nodes))
\* llms = [n.model for n in all_nodes.values() if n.model]
RECURSIVE Llms(_)
Llms(nodes) ==
    IF nodes = <<>> THEN <<>>
    ELSE (IF Truthy([k |-> Head(nodes).model.k, v |-> Head(nodes).model.v, fields |-> <<>>])
          THEN <<Head(nodes).model>> ELSE <<>>) \o Llms(Tail(nodes))

\* set(llms), and the lists that list(set(llms)) may be: the order of a set
\* of strings is not fixed.
ModelSet(llms) == {llms[i].v : i \in 1..Len(llms)}
Orderings(S) == {q \in [1..Cardinality(S) -> S] : {q[i] : i \in 1..Cardinality(S)} = S}

\* Lines 160-167: list(set(llms)) needs hashable models, and the
\* WorkflowGraph model needs them to be strings.
ReturnValue(nodes, edges, wm, llms, llms_detected) ==
    IF \E i \in 1..Len(llms) : llms[i].k \in {"list", "dict"}
    THEN Raise("TypeError", <<>>)
    ELSE IF \E i \in 1..Len(llms) : llms[i].k # "str"
    THEN Raise("ValidationError", <<>>)
    ELSE [kind |-> "Graph", nodes |-> nodes, edges |-> edges,
          llms_detected |-> llms_detected, workflows |-> wm, preview |-> <<>>]

Return ==
    /\ pc = "blocks"
    /\ workflows = <<>>
    /\ pc' = "done"
    /\ \E llms \in {Llms(all_nodes)} :
       \E order \in Orderings(ModelSet(llms)) :
           outcome' = ReturnValue(all_nodes, all_edges, workflow_metadata, llms, order)
    /\ UNCHANGED <<input, response, diagram_part, metadata_part, rule, node_metadata,
                   workflows, blocks, all_nodes, all_edges, workflow_metadata, printed,
                   peers, outside>>

Next ==
    \/ Preprocess
    \/ Segmenting
    \/ MetadataParsing
    \/ DiagramParsing
    \/ ProcessBlock
    \/ Return

Spec == Init /\ [][Next]_vars

----------------------------------------------------------------------------
(* Several invocations side by side                                        *)
(*                                                                         *)
(* parse_mermaid_response and the functions it calls keep all they write   *)
(* in local names (lines 62-167, 175-177, 211-212); the module has no      *)
(* global but the functions.  An invocation that is not running is its     *)
(* frame, and a switch of the processor exchanges the running frame with   *)
(* a waiting one.                                                          *)

\* The frame of the running invocation.
Locals ==
    [input |-> input, pc |-> pc, response |-> response, diagram_part |-> diagram_part,
     metadata_part |-> metadata_part, rule |-> rule, node_metadata |-> node_metadata,
     workflows |-> workflows, blocks |-> blocks, all_nodes |-> all_nodes,
     all_edges |-> all_edges, workflow_metadata |-> workflow_metadata,
     printed |-> printed, outcome |-> outcome]

\* The frame of an invocation that has not started.
StartFrame(text) ==
    [input |-> text, pc |-> "start", response |-> <<>>, diagram_part |-> <<>>,
     metadata_part |-> <<>>, rule |-> 0, node_metadata |-> EmptyDict,
     workflows |-> <<>>, blocks |-> <<>>, all_nodes |-> <<>>, all_edges |-> <<>>,
     workflow_metadata |-> <<>>, printed |-> NoPrints, outcome |-> NoOutcome]

\* A variant of Resume in which all_nodes is one dict of the module, shared
\* by the invocations.
ResumeSharedNodes(f) ==
    /\ input' = f.input
    /\ pc' = f.pc
    /\ response' = f.response
    /\ diagram_part' = f.diagram_part
    /\ metadata_part' = f.metadata_part
    /\ rule' = f.rule
    /\ node_metadata' = f.node_metadata
    /\ workflows' = f.workflows
    /\ blocks' = f.blocks
    /\ all_nodes' = all_nodes
    /\ all_edges' = f.all_edges
    /\ workflow_metadata' = f.workflow_metadata
    /\ printed' = f.printed
    /\ outcome' = f.outcome
\* The invocation of frame f runs on: every name it reads is its own.
Resume(f) ==
    /\ input' = f.input
    /\ pc' = f.pc
    /\ response' = f.response
    /\ diagram_part' = f.diagram_part
    /\ metadata_part' = f.metadata_part
    /\ rule' = f.rule
    /\ node_metadata' = f.node_metadata
    /\ workflows' = f.workflows
    /\ blocks' = f.blocks
    /\ all_nodes' = f.all_nodes
    /\ all_edges' = f.all_edges
    /\ workflow_metadata' = f.workflow_metadata
    /\ printed' = f.printed
    /\ outcome' = f.outcome

\* The processor passes from the running invocation to a waiting one.
Switch ==
    \E k \in 1..Len(peers) :
        /\ Resume(peers[k])
        /\ peers' = [peers EXCEPT ![k] = Locals]
        /\ UNCHANGED outside

InitPar ==
    /\ input \in ParInputs
    /\ pc = "start"
    /\ response = <<>>
    /\ diagram_part = <<>>
    /\ metadata_part = <<>>
    /\ rule = 0
    /\ node_metadata = EmptyDict
    /\ workflows = <<>>
    /\ blocks = <<>>
    /\ all_nodes = <<>>
    /\ all_edges = <<>>
    /\ workflow_metadata = <<>>
    /\ printed = NoPrints
    /\ outcome = NoOutcome
    /\ peers \in {[k \in 1..Len(ts) |-> StartFrame(ts[k])] :
                    ts \in {q \in SeqsUpTo(ParInputs, MaxPeers) : Len(q) = MaxPeers}}
    /\ NoRequest /\ NoTrial /\ NoTokens

NextPar == Next \/ Switch

SpecPar == InitPar /\ [][NextPar]_vars

----------------------------------------------------------------------------
(* Properties of one invocation                                            *)

Range(q) == {q[i] : i \in 1..Len(q)}
IdSet(nodes) == {nodes[i].id : i \in 1..Len(nodes)}
Returned == pc = "done" /\ outcome.kind = "Graph"
Segmented == pc \in {"metadata", "diagram", "blocks", "done"}

\* The text, trimmed and case-folded, begins with the "no workflow" token
\* (six characters, in either of its two spellings).
TokenOf(trimmed) == IF Len(trimmed) < 6 THEN <<>> ELSE Upper(SubSeq(trimmed, 1, 6))
SentinelText(text) == TokenOf(Strip(text)) \in {kwNoLlmUnderscore, kwNoLlmSpace}

\* The identifiers that a shape pattern matches in the lines of a block.
ShapeIds(lines) ==
    {m.id : m \in UNION {Range(FindShapes(l, p, 1)) :
                            l \in Range(lines), p \in Range(node_patterns)}}
AllShapeIds == UNION {ShapeIds(blocks[i].lines) : i \in 1..Len(blocks)}

\* The override record of an id is a dict with a 'type', inside or outside
\* the enum.
HasTypeOverride(id) ==
    /\ node_metadata.k = "dict"
    /\ HasKey(node_metadata, id)
    /\ Get(node_metadata, id).k = "dict"
    /\ HasKey(Get(node_metadata, id), kType)
OverrideType(id) == Get(Get(node_metadata, id), kType)
TypeInEnum(id) == OverrideType(id).k = "str" /\ OverrideType(id).v \in {tStep, tLlm, tDecision}
\* The type of the first shape that matches the id: that of the first block
\* that holds it.
FirstBlockOf(id) == MinOf({i \in 1..Len(blocks) : id \in Range(blocks[i].nodeIds)})
FirstShapeType(id) == NodeOf(ScanNodes(<<>>, blocks[FirstBlockOf(id)].lines), id).type

\* C1: every invocation that has ended, whatever its metadata section loads
\* to and whatever the types of the override fields, ended with a Graph, with
\* MissingSeparator or with InvalidMetadataBody.
C1_ThreeOutcomes ==
    pc = "done" => outcome.kind \in {"Graph", "MissingSeparator", "InvalidMetadataBody"}

\* C2: for the end-to-end example the invocation returns 4 nodes whose types
\* by id are A step, B llm, C decision, D step; the 3 edges A->B, B->C and
\* C->D labelled "yes"; 1 workflow named Demo whose nodeIds are the 4 ids;
\* and llms_detected = ["gpt"].
C2_Example ==
    (input = Example /\ pc = "done") =>
        /\ outcome.kind = "Graph"
        /\ Len(outcome.nodes) = 4
        /\ {<<n.id, n.type>> : n \in Range(outcome.nodes)}
              = {<<<<"A">>, tStep>>, <<<<"B">>, tLlm>>, <<<<"C">>, tDecision>>,
                 <<<<"D">>, tStep>>}
        /\ outcome.edges
              = << [source |-> <<"A">>, target |-> <<"B">>, label |-> NoLabel],
                   [source |-> <<"B">>, target |-> <<"C">>, label |-> NoLabel],
                   [source |-> <<"C">>, target |-> <<"D">>,
                    label |-> [some |-> TRUE, text |-> <<"y","e","s">>]] >>
        /\ Len(outcome.workflows) = 1
        /\ outcome.workflows[1].name = <<"D","e","m","o">>
        /\ Range(outcome.workflows[1].nodeIds) = {<<"A">>, <<"B">>, <<"C">>, <<"D">>}
        /\ outcome.llms_detected = << <<"g","p","t">> >>
C2_ExampleReturned == input = Example /\ pc = "done" /\ outcome.kind = "Graph"

\* C3: an input that begins with the sentinel token, whatever follows it,
\* never leaves the sentinel check for the later stages, and ends with the
\* empty Graph.
C3_SentinelEmptyGraph ==
    SentinelText(input) =>
        /\ pc \in {"start", "done"}
        /\ pc = "done" => outcome = EmptyGraph
C3_SentinelWithoutSeparator ==
    /\ pc = "done"
    /\ SentinelText(input)
    /\ ~Contains(input, SEP)
    /\ Len(Strip(input)) > 20
    /\ outcome = EmptyGraph

\* C4: an invocation whose cleaned text is no sentinel and holds no '---'
\* ends with MissingSeparator, whose preview is the first 200 characters of
\* the cleaned text (all of it when it is shorter).
C4_NoSeparatorRaises ==
    (pc = "done" /\ ~SentinelText(response) /\ ~Contains(response, SEP)) =>
        /\ outcome.kind = "MissingSeparator"
        /\ Len(outcome.preview) <= 200
        /\ Len(outcome.preview) = (IF Len(response) < 200 THEN Len(response) ELSE 200)
        /\ outcome.preview = SubSeq(response, 1, Len(outcome.preview))
C4_LongInputTruncated ==
    /\ pc = "done"
    /\ input = ExampleNoSeparator
    /\ Len(response) > 200
    /\ outcome.kind = "MissingSeparator"
    /\ Len(outcome.preview) = 200

\* C5 as stated: a non-sentinel text that holds '---' somewhere never ends
\* with MissingSeparator, and when neither the strict pattern nor a '---'
\* before 'metadata:' splits it, it is split at the last '---'.
C5_OnlyWithoutSeparator ==
    (Segmented /\ ~SentinelText(response) /\ Contains(response, SEP)) =>
        /\ outcome.kind # "MissingSeparator"
        /\ (/\ StrictPatternStart(response) = 0
            /\ RFindBefore(response, SEP, Find(response, METADATA)) = 0)
               => diagram_part = Upto(response, RFind(response, SEP) - 1)

\* C5 amended: a non-sentinel text ends with MissingSeparator exactly when it
\* holds no '---' at all, or when the strict pattern does not match, it holds
\* 'metadata:', and no '---' lies before the first 'metadata:'; a text with
\* '---' and without 'metadata:' is split at its last '---'.
C5_MissingSeparatorExactly ==
    (Segmented /\ ~SentinelText(response)) =>
        /\ outcome.kind = "MissingSeparator"
              <=> \/ ~Contains(response, SEP)
                  \/ /\ StrictPatternStart(response) = 0
                     /\ Contains(response, METADATA)
                     /\ RFindBefore(response, SEP, Find(response, METADATA)) = 0
        /\ (Contains(response, SEP) /\ ~Contains(response, METADATA))
              => /\ diagram_part = Upto(response, RFind(response, SEP) - 1)
                 /\ pc = "metadata"
                      => metadata_part = From(response, RFind(response, SEP) + 3)
C5_SeparatorOnlyAfterMetadata ==
    /\ pc = "done"
    /\ ~SentinelText(response)
    /\ Contains(response, SEP)
    /\ outcome.kind = "MissingSeparator"

\* C6: in a returned Graph the node ids are pairwise distinct, and the nodes
\* are as many as the distinct identifiers that a shape matches in any block.
C6_DistinctNodeIds ==
    Returned =>
        /\ Cardinality(IdSet(outcome.nodes)) = Len(outcome.nodes)
        /\ IdSet(outcome.nodes) = AllShapeIds
        /\ Len(outcome.nodes) = Cardinality(AllShapeIds)
C6_SharedIdAcrossBlocks ==
    /\ Returned
    /\ \E i \in 1..Len(blocks) : \E j \in (i + 1)..Len(blocks) :
          Range(blocks[i].nodeIds) \cap Range(blocks[j].nodeIds) # {}

\* C7: in a returned Graph the source of every edge is the id of a node of
\* the Graph.
C7_EdgeSourcesAreNodes ==
    Returned => \A e \in Range(outcome.edges) : e.source \in IdSet(outcome.nodes)
C7_EdgeDropped ==
    /\ Returned
    /\ outcome.edges # <<>>
    /\ \E e \in Range(printed.skipped) : e.source \notin IdSet(outcome.nodes)

\* C8: an edge recognized in any block is among the edges of the returned
\* Graph if and only if its source is the id of a node of the Graph.
C8_RetainedIffSourceAssembled ==
    Returned =>
        \A i \in 1..Len(blocks) : \A e \in Range(blocks[i].raw_edges) :
            e \in Range(outcome.edges) <=> e.source \in IdSet(outcome.nodes)

\* C9: the target of a retained edge is printed among the cross-batch
\* targets if and only if it is no node of the returned Graph.
C9_PendingTargetsExact ==
    Returned =>
        \A e \in Range(outcome.edges) :
            e.target \in Range(printed.cross_batch_targets)
                <=> e.target \notin IdSet(outcome.nodes)

\* C10: an override type outside the enum raises no error, and every node of
\* a returned Graph has a type of the enum: the override's type when it is in
\* the enum, step when it is present and outside the enum, else the type of
\* the node's first matching shape.
C10_TypeResolution ==
    /\ \A i \in 1..Len(blocks) :
          (\E id \in ShapeIds(blocks[i].lines) : HasTypeOverride(id) /\ ~TypeInEnum(id))
              => blocks[i].err # "TypeError"
    /\ Returned =>
          \A n \in Range(outcome.nodes) :
              /\ n.type \in {tStep, tLlm, tDecision}
              /\ n.type = (IF HasTypeOverride(n.id)
                           THEN (IF TypeInEnum(n.id) THEN OverrideType(n.id).v ELSE tStep)
                           ELSE FirstShapeType(n.id))

\* The occurrences of an identifier with a shape in a line: where each
\* starts, the pattern that matches it and its raw label.
Occurrences(line, id) ==
    UNION { { [start |-> m.end - Len(m.id) - Len(m.label)
                            - Len(node_patterns[k].open) - Len(node_patterns[k].close),
               k |-> k, label |-> m.label] :
                m \in {mm \in Range(FindShapes(line, node_patterns[k], 1)) : mm.id = id} } :
            k \in 1..Len(node_patterns) }
FirstLineOf(lines, id) == MinOf({l \in 1..Len(lines) : Occurrences(lines[l], id) # {}})
\* The first occurrence in the text of a block: the leftmost of the first
\* line that holds one, read with the most specific pattern that matches
\* there.
FirstOccurrence(lines, id) ==
    LET occ == Occurrences(lines[FirstLineOf(lines, id)], id)
        first == MinOf({o.start : o \in occ})
    IN  CHOOSE o \in occ : o.start = first /\ \A o2 \in occ : o2.start = first => o.k <= o2.k

\* C11: in every block, the label of each node is that of the first shape
\* occurrence of its id in the block's text, and so is its type when no
\* override sets the type: a later shape of the id, on a later line or later
\* on the same line, changes neither.
C11_FirstShapeWins ==
    \A i \in 1..Len(blocks) : blocks[i].err = "none" =>
        \A n \in Range(blocks[i].nodes) :
            /\ n.label = CleanLabel(FirstOccurrence(blocks[i].lines, n.id).label)
            /\ ~HasTypeOverride(n.id)
                  => n.type = node_patterns[FirstOccurrence(blocks[i].lines, n.id).k].type

HasNodes(b) == b.nodeIds # <<>>

\* C12: the workflows of a returned Graph are those of the blocks with
\* nodes, in order; the nodeIds of each are the identifiers that a shape
\* matches in its own block, each once, shared with another block or not, and
\* all of them ids of nodes of the Graph.
C12_NodeIdsOfOwnBlock ==
    Returned =>
        /\ Len(outcome.workflows) = Len(SelectSeq(blocks, HasNodes))
        /\ \A k \in 1..Len(outcome.workflows) :
              /\ Range(outcome.workflows[k].nodeIds)
                    = ShapeIds(SelectSeq(blocks, HasNodes)[k].lines)
              /\ Cardinality(Range(outcome.workflows[k].nodeIds))
                    = Len(outcome.workflows[k].nodeIds)
              /\ Range(outcome.workflows[k].nodeIds) \subseteq IdSet(outcome.nodes)
C12_SharedIdInBothWorkflows ==
    /\ Returned
    /\ Len(outcome.workflows) >= 2
    /\ \E id \in IdSet(outcome.nodes) :
          /\ id \in Range(outcome.workflows[1].nodeIds)
          /\ id \in Range(outcome.workflows[2].nodeIds)
          /\ id \in ShapeIds(blocks[1].lines) \cap ShapeIds(blocks[2].lines)

\* No entry of the metadata mapping overrides the id.
NoOverride(id) == ~(node_metadata.k = "dict" /\ HasKey(node_metadata, id))

\* C13: the inference raises no error, and in a returned Graph a node
\* without override whose id is path::function or path::function::line has
\* the source (path, function, line), the line being the third segment when
\* it is there and numeric, and 0 otherwise.
C13_InferredSource ==
    /\ \A i \in 1..Len(blocks) : blocks[i].err # "ValueError"
    /\ Returned =>
          \A n \in Range(outcome.nodes) :
              (NoOverride(n.id) /\ Len(Split(n.id, COLONS)) \in {2, 3}) =>
                  /\ n.source.present
                  /\ n.source.file = Split(n.id, COLONS)[1]
                  /\ n.source.has_function
                  /\ n.source.function = Split(n.id, COLONS)[2]
                  /\ n.source.line
                        = (IF Len(Split(n.id, COLONS)) = 3 /\ IsDecimal(Split(n.id, COLONS)[3])
                           THEN ToInt(Split(n.id, COLONS)[3]) ELSE 0)

\* C14: llms_detected of a returned Graph lists the non-empty models of the
\* nodes of the Graph, each once, and nothing else.
C14_LlmsDetected ==
    Returned =>
        /\ Range(outcome.llms_detected)
              = {n.model.v : n \in {m \in Range(outcome.nodes) :
                                       m.model.k = "str" /\ m.model.v # <<>>}}
        /\ Len(outcome.llms_detected) = Cardinality(Range(outcome.llms_detected))
C14_SharedAndEmptyModels ==
    /\ Returned
    /\ Len(outcome.llms_detected) = 2
    /\ \E a, b \in Range(outcome.nodes) :
          a.id # b.id /\ a.model = b.model /\ a.model.k = "str" /\ a.model.v # <<>>
    /\ \E n \in Range(outcome.nodes) : n.model.k = "str" /\ n.model.v = <<>>
    /\ \E n \in Range(outcome.nodes) :
          n.type # tLlm /\ n.model.k = "str" /\ n.model.v # <<>>

\* The name in lower case with every character outside [a-z0-9_] replaced by
\* an underscore, and a text without the underscores at its ends.
IdAlphabet == Range(LowerAlpha) \cup Range(Digits) \cup {"_"}
LoweredReplaced(name) ==
    [i \in 1..Len(name) |->
        IF LowerChar(name[i]) \in IdAlphabet THEN LowerChar(name[i]) ELSE "_"]
RECURSIVE TrimUnderscores(_)
TrimUnderscores(t) ==
    IF t # <<>> /\ Head(t) = "_" THEN TrimUnderscores(Tail(t))
    ELSE IF t # <<>> /\ t[Len(t)] = "_" THEN TrimUnderscores(SubSeq(t, 1, Len(t) - 1))
    ELSE t

\* C15 as stated: the id of every workflow is its name in lower case with
\* every character outside [a-z0-9_] replaced by '_', and nothing else.
C15_IdIsLoweredReplacedName ==
    Returned => \A w \in Range(outcome.workflows) : w.id = LoweredReplaced(w.name)

\* C15 amended: the id of every workflow is 'workflow_' followed by its name
\* in lower case with every character outside [a-z0-9_] replaced by '_' and
\* the underscores at both ends removed.
C15_IdIsPrefixedTrimmedName ==
    Returned =>
        \A w \in Range(outcome.workflows) :
            w.id = <<"w","o","r","k","f","l","o","w","_">>
                      \o TrimUnderscores(LoweredReplaced(w.name))
C15_NameWithCapitalAndMark ==
    /\ Returned
    /\ \E w \in Range(outcome.workflows) :
          /\ w.name # Lower(w.name)
          /\ LoweredReplaced(w.name) # TrimUnderscores(LoweredReplaced(w.name))
          /\ Contains(TrimUnderscores(LoweredReplaced(w.name)), <<"_">>)

\* The lines of a diagram section, the keyword lines among them, and the
\* groups they delimit: group 0 lies before the first keyword line, group b
\* after the keyword line b, up to the next keyword line.
TrimmedLines(ls) == [l \in 1..Len(ls) |-> Strip(ls[l])]
DiagramLinesOf(d) == TrimmedLines(Split(Strip(d), <<NL>>))
KeywordLines(ls) == {l \in 1..Len(ls) : StartsWith(ls[l], kwFlowchart)}
GroupLines(ls, b) ==
    {j \in (b + 1)..Len(ls) :
        /\ \A k \in (b + 1)..j : ~StartsWith(ls[k], kwFlowchart)
        /\ ls[j] # <<>>
        /\ ~StartsWith(ls[j], <<"%", "%">>)}
GroupShapeIds(ls, b) == UNION {ShapeIds(<<ls[j]>>) : j \in GroupLines(ls, b)}
GroupsWithNodes(ls) == {b \in {0} \cup KeywordLines(ls) : GroupShapeIds(ls, b) # {}}
Kth(S, k) == CHOOSE x \in S : Cardinality({y \in S : y < x}) = k - 1

\* C16 as stated: a returned Graph has as many workflows as the diagram
\* section has 'flowchart' keyword lines.
C16_OnePerKeywordLine ==
    Returned => Len(outcome.workflows) = Cardinality(KeywordLines(DiagramLinesOf(diagram_part)))

\* C16 amended: a returned Graph has one workflow per diagram block that
\* holds a shape-matched node, in block order; a block is the content lines
\* before the first keyword line or between a keyword line and the next, and
\* a block without lines or without such a node has no workflow.
OnePerGroup(ws, ls, G) ==
    /\ Len(ws) = Cardinality(G)
    /\ \A k \in 1..Len(ws) : Range(ws[k].nodeIds) = GroupShapeIds(ls, Kth(G, k))
OnePerGroupOf(ws, ls) == OnePerGroup(ws, ls, GroupsWithNodes(ls))
C16_OnePerBlockWithNodes ==
    Returned => OnePerGroupOf(outcome.workflows, DiagramLinesOf(diagram_part))
GroupWithoutNodes(ls) ==
    /\ GroupShapeIds(ls, 0) # {}
    /\ \E b \in KeywordLines(ls) : GroupLines(ls, b) # {} /\ GroupShapeIds(ls, b) = {}
C16_BlockWithoutNodes ==
    /\ Returned
    /\ Len(outcome.workflows) >= 1
    /\ GroupWithoutNodes(DiagramLinesOf(diagram_part))

Failure == {"MissingSeparator", "InvalidMetadataBody"}

\* C17: MissingSeparator arises in the segmentation only, before anything of
\* the metadata or the diagram is parsed; InvalidMetadataBody arises in the
\* metadata stage only, after a split, and always when the cleaned metadata
\* section does not load, whatever the diagram; an invocation that failed
\* has ended, does nothing more, returns no Graph or part of one, and its
\* preview has at most 200 characters.
C17_FailuresFromOwnStage ==
    /\ [](/\ (rule # 0 /\ pc \in {"diagram", "blocks", "done"}
                  /\ yaml_safe_load(metadata_part).k = "error")
              => outcome.kind = "InvalidMetadataBody"
          /\ outcome.kind \in Failure
              => /\ pc = "done"
                 /\ Len(outcome.preview) <= 200
                 /\ outcome.nodes = <<>> /\ outcome.edges = <<>>
                 /\ outcome.workflows = <<>>
                 /\ workflows = <<>> /\ blocks = <<>> /\ all_nodes = <<>>)
    /\ [][/\ (outcome'.kind = "MissingSeparator" /\ outcome.kind # "MissingSeparator")
              => pc = "segment" /\ node_metadata' = EmptyDict /\ metadata_part = <<>>
          /\ (outcome'.kind = "InvalidMetadataBody" /\ outcome.kind # "InvalidMetadataBody")
              => pc = "metadata" /\ rule \in {1, 2, 3}
          /\ outcome.kind \in Failure => UNCHANGED vars]_vars
C17_LongBodyDoesNotLoad ==
    /\ pc = "done"
    /\ outcome.kind = "InvalidMetadataBody"
    /\ Len(metadata_part) > 200
    /\ Len(outcome.preview) = 200
    /\ ShapeIds(Split(diagram_part, <<NL>>)) # {}

\* What an invocation on a text ends with when it runs alone, from start to
\* end without a switch; llms_detected in one of its orders.
RECURSIVE Assemble(_, _, _, _, _)
AssembleNext(ws, md, nodes, edges, wm, r) ==
    IF r.err # "none" THEN Raise(r.err, <<>>)
    ELSE Assemble(Tail(ws), md, MergeNodes(nodes, r.nodes), edges \o r.edges,
                  AddWorkflow(wm, Head(ws).name, r.nodes))
Finish(nodes, edges, wm, llms) ==
    ReturnValue(nodes, edges, wm, llms, CHOOSE q \in Orderings(ModelSet(llms)) : TRUE)
Assemble(ws, md, nodes, edges, wm) ==
    IF ws = <<>> THEN Finish(nodes, edges, wm, Llms(nodes))
    ELSE AssembleNext(ws, md, nodes, edges, wm, parse_flowchart(Head(ws).lines, md))
Loaded(d, m, y) ==
    IF y.k = "error" THEN Raise("InvalidMetadataBody", Preview(m))
    ELSE IF y.k = "ValueError" THEN Raise("ValueError", <<>>)
    ELSE Assemble(parse_workflows(d), y, <<>>, <<>>, <<>>)
Cleaned(d, m) == Loaded(d, m, LoadMetadata(m))
AfterSplit(sg) ==
    IF sg.ok THEN Cleaned(sg.diagram_part, CleanMetadata(sg.metadata_part))
    ELSE Raise("MissingSeparator", sg.preview)
Stripped(r) == IF IsSentinel(r) THEN EmptyGraph ELSE AfterSplit(Segment(r))
Alone(text) == Stripped(strip_markdown(text))

\* Two outcomes are the same up to the order of llms_detected.
SameOutcome(a, b) ==
    /\ [a EXCEPT !.llms_detected = <<>>] = [b EXCEPT !.llms_detected = <<>>]
    /\ Len(a.llms_detected) = Len(b.llms_detected)
    /\ Range(a.llms_detected) = Range(b.llms_detected)

\* C18: with several invocations side by side, whatever the switches
\* between them, every invocation that has ended, running or waiting, ended
\* as it ends alone on its text; so do two invocations on one text.
C18_Independent ==
    /\ pc = "done" => SameOutcome(outcome, Alone(input))
    /\ \A k \in 1..Len(peers) :
          peers[k].pc = "done" => SameOutcome(peers[k].outcome, Alone(peers[k].input))
C18_BothEndedSharingIds ==
    /\ pc = "done"
    /\ outcome.kind = "Graph"
    /\ \E k \in 1..Len(peers) :
          /\ peers[k].pc = "done"
          /\ peers[k].outcome.kind = "Graph"
          /\ peers[k].input # input
          /\ IdSet(peers[k].outcome.nodes) \cap IdSet(outcome.nodes) # {}
          /\ IdSet(peers[k].outcome.nodes) # IdSet(outcome.nodes)

\* A line that holds the separator alone and is followed at once by a line
\* that begins with 'metadata:'; a line that holds the separator alone.
StrictLineAt(s, i) == AtLineStart(s, i) /\ MatchAt(s, SEP \o <<NL>> \o METADATA, i)
FirstStrictLine(s) ==
    IF \E i \in 1..Len(s) : StrictLineAt(s, i)
    THEN MinOf({i \in 1..Len(s) : StrictLineAt(s, i)}) ELSE 0
StandaloneSepAt(s, i) ==
    /\ AtLineStart(s, i)
    /\ MatchAt(s, SEP, i)
    /\ (i + 3 > Len(s) \/ s[i + 3] = NL)
NearestSepLineBefore(s, m) ==
    IF \E i \in 1..Len(s) : StandaloneSepAt(s, i) /\ i + 3 <= m
    THEN MaxOf({i \in 1..Len(s) : StandaloneSepAt(s, i) /\ i + 3 <= m}) ELSE 0
\* The text before the line that starts at i, with or without the newline
\* that ends it.
TextBeforeLine(s, i) == {Upto(s, i - 1), Upto(s, i - 2)}

\* C19: a cleaned text that is no sentinel and holds a separator line
\* followed at once by a 'metadata:' line, be it the first line of the text
\* and whatever else the text holds, is split there: the diagram section is
\* the text before that line and the metadata section the text after the
\* literal.
C19_SplitAtStrictLine ==
    (Segmented /\ ~SentinelText(response) /\ FirstStrictLine(response) # 0) =>
        /\ outcome.kind # "MissingSeparator"
        /\ diagram_part \in TextBeforeLine(response, FirstStrictLine(response))
        /\ pc = "metadata"
              => metadata_part = From(response, FirstStrictLine(response) + 13)

\* C20: a cleaned text that is no sentinel, that rule 1 does not split, that
\* holds 'metadata:' and a standalone separator line before it, is split at
\* the nearest such line before the first 'metadata:': the diagram section is
\* the text before that line, and the metadata section the text after the
\* literal.
C20_SplitAtStandaloneLine ==
    (/\ Segmented /\ ~SentinelText(response)
     /\ StrictPatternStart(response) = 0 /\ FirstStrictLine(response) = 0
     /\ Contains(response, METADATA)
     /\ NearestSepLineBefore(response, Find(response, METADATA)) # 0) =>
        /\ outcome.kind # "MissingSeparator"
        /\ diagram_part
              \in TextBeforeLine(response,
                                 NearestSepLineBefore(response, Find(response, METADATA)))
        /\ pc = "metadata"
              => metadata_part = From(response, Find(response, METADATA) + 9)


\* C21: in a returned Graph a node that the metadata mapping overrides has
\* the source of its override record (file, line, function) exactly when the
\* record holds both file and line, whatever the shape of its id, and has no
\* source when the record lacks file or line: no source is made from the id
\* of a node that has an override.
C21_InferenceOnlyWithoutOverride ==
    Returned =>
        \A n \in Range(outcome.nodes) :
            ~NoOverride(n.id) =>
                IF Get(node_metadata, n.id).k = "dict" /\ HasLoc(Get(node_metadata, n.id))
                THEN n.source = MetaSource(Get(node_metadata, n.id))
                ELSE ~n.source.present


\* The ids of the nodes of a block that ended without a source.
Sourceless(b) == {n.id : n \in {m \in Range(b.nodes) : ~m.source.present}}

GroupsWithLines(ls) == {b \in {0} \cup KeywordLines(ls) : GroupLines(ls, b) # {}}
ContentOf(ls, b) ==
    [k \in 1..Cardinality(GroupLines(ls, b)) |-> ls[Kth(GroupLines(ls, b), k)]]
NameLines(ls, b) ==
    {j \in (b + 1)..Len(ls) :
        /\ \A k \in (b + 1)..j : ~StartsWith(ls[k], kwFlowchart)
        /\ StartsWith(ls[j], kwWorkflowComment)}
GroupName(ls, b) ==
    IF NameLines(ls, b) = {} THEN <<"M","a","i","n"," ","W","o","r","k","f","l","o","w">>
    ELSE Strip(From(ls[MaxOf(NameLines(ls, b))], Len(kwWorkflowComment) + 1))

\* C23: the blocks that parse_workflows returns are the groups of content
\* lines that the 'flowchart' lines delimit, in the order of the text; the
\* name of each is the one that a '%% Workflow:' comment of its own group
\* gives it and 'Main Workflow' when its group has no such comment, whatever
\* the names of the other groups; no line of a block is a comment line.
BlocksAre(ws, ls, G) ==
    /\ Len(ws) = Cardinality(G)
    /\ \A k \in 1..Len(ws) :
          /\ ws[k].lines = ContentOf(ls, Kth(G, k))
          /\ ws[k].name = GroupName(ls, Kth(G, k))
          /\ \A l \in Range(ws[k].lines) : ~StartsWith(l, <<"%", "%">>)
BlocksOf(ws, ls) == BlocksAre(ws, ls, GroupsWithLines(ls))
C23_BlocksAndNames ==
    (pc = "blocks" /\ blocks = <<>>) => BlocksOf(workflows, DiagramLinesOf(diagram_part))
C23_NamedThenDefault ==
    /\ pc = "blocks" /\ blocks = <<>>
    /\ Len(workflows) = 2
    /\ workflows[1].name = <<"Q", " ", "r", "!">>
    /\ workflows[2].name = <<"M","a","i","n"," ","W","o","r","k","f","l","o","w">>


\* C24: in every block that parse_flowchart ends without error the nodes are
\* the identifiers that a shape matches in the block, so an identifier that
\* the block holds as a bare endpoint of an edge only is no node of it; and
\* every edge that the edge pattern matches in a line of the block is among
\* the recorded edges with its source, target and label, whether its
\* endpoints are nodes or not (the line 'X --> A' records the edge from X to
\* A without label).
C24_NodesFromShapesOnly ==
    \A i \in 1..Len(blocks) :
        blocks[i].err = "none" =>
            /\ IdSet(blocks[i].nodes) = ShapeIds(blocks[i].lines)
            /\ \A e \in Range(blocks[i].raw_edges) :
                  /\ e.source \notin ShapeIds(blocks[i].lines)
                        => e.source \notin IdSet(blocks[i].nodes)
                  /\ e.target \notin ShapeIds(blocks[i].lines)
                        => e.target \notin IdSet(blocks[i].nodes)
            /\ \A l \in Range(blocks[i].lines) :
                  Range(FindEdges(l, 1)) \subseteq Range(blocks[i].raw_edges)
            /\ <<"X"," ","-","-",">"," ","A">> \in Range(blocks[i].lines)
                  => [source |-> <<"X">>, target |-> <<"A">>,
                      label |-> [some |-> FALSE, text |-> <<>>]]
                        \in Range(blocks[i].raw_edges)
C24_BareEndpointsRecorded ==
    /\ Returned
    /\ \E i \in 1..Len(blocks) :
          /\ blocks[i].nodes # <<>>
          /\ \E e \in Range(blocks[i].raw_edges) :
                /\ e.source \notin IdSet(blocks[i].nodes)
                /\ e.target \in IdSet(blocks[i].nodes)
          /\ \E e \in Range(blocks[i].raw_edges) :
                /\ e.source \in IdSet(blocks[i].nodes)
                /\ e.target \notin IdSet(blocks[i].nodes)


\* The lines of a text, and those of them that are no fence lines.
LinesOf(text) == IF text = <<>> THEN <<>> ELSE Split(text, <<NL>>)
IsFenceLine(l) == StartsWith(l, FENCE)
IsTextLine(l) == ~StartsWith(l, FENCE)
FirstAndLastAreText(ls) == ls # <<>> => IsTextLine(ls[1]) /\ IsTextLine(ls[Len(ls)])

\* C25: for every input built from text lines and fence lines, bare or with a
\* language tag, the text that strip_markdown returns neither begins nor
\* ends with a fence line, and its lines that are no fence lines are those of
\* the input, unchanged and in order.
C25_FencesRemoved ==
    (pc # "start" /\ input \in FenceInputs) =>
        /\ FirstAndLastAreText(LinesOf(response))
        /\ SelectSeq(LinesOf(response), IsTextLine) = SelectSeq(LinesOf(input), IsTextLine)


----------------------------------------------------------------------------
(* main.py, analyze_workflow: one /analyze request in the Mermaid format   *)
(*                                                                         *)
(* The generator (gemini_client.analyze_workflow) is outside the request:  *)
(* each call of it returns one of a few texts or raises.  A call of the    *)
(* engine, parse_mermaid_response, is one step of the request: it ends as  *)
(* an invocation that runs alone on its text ends.                         *)

\* Line 378.
MAX_RETRIES == 2

\* What the generator may answer: a graph, bare or in a fence, a sentinel,
\* a text without separator, metadata that does not load, an override whose
\* line is no number and an override whose type is a list.
GeneratorOutputs ==
    { Text(<<lnFlowchart, lnAB, lnSep, lnMetadata, lnLoc>>),
      FENCE \o kwMermaid \o <<NL>>
        \o Text(<<lnFlowchart, lnAB, lnSep, lnMetadata, lnLoc>>) \o <<NL>> \o FENCE \o <<NL>>,
      kwNoLlmWorkflow,
      Text(<<lnFlowchart, lnPlainEdge>>),
      Text(<<lnFlowchart, lnAB, lnSep, lnMetadata, lnOpenBrace>>),
      Text(<<lnFlowchart, lnAB, lnSep, lnMetadata, lnLocBad>>),
      Text(<<lnFlowchart, lnAB, lnSep, lnMetadata, lnTypeList>>) }
\* request.file_paths
FilePaths == { <<>>, << <<"s", "/", "f">> >> }

\* The exceptions of the engine that `except ValueError` catches: the two
\* it raises itself, the ValueError of a library and the ValidationError of
\* the pydantic models, a subclass of ValueError.
ParseErrors == {"MissingSeparator", "InvalidMetadataBody", "ValueError", "ValidationError"}

\* Lines 381-386: the wrappers that the request strips itself.
CleanLeading(clean_result) ==
    IF StartsWith(clean_result, FENCE)
    THEN (IF Contains(clean_result, <<NL>>)
          THEN From(clean_result, Find(clean_result, <<NL>>) + 1)
          ELSE From(clean_result, 4))
    ELSE clean_result
CleanTrailing(clean_result) ==
    IF EndsWith(clean_result, FENCE)
    THEN Upto(clean_result, RFind(clean_result, FENCE) - 1)
    ELSE clean_result
CleanResult(r) == CleanTrailing(CleanLeading(r))

\* Lines 364-373.
fix_file_path(path, paths) ==
    IF path = <<>> THEN path
    ELSE IF \E i \in 1..Len(paths) : paths[i] = path THEN path
    ELSE LET filename == Split(path, <<"/">>)[Len(Split(path, <<"/">>))]
             idx == {i \in 1..Len(paths) : EndsWith(paths[i], <<"/">> \o filename)}
         IN  IF idx = {} THEN path ELSE paths[MinOf(idx)]
\* Lines 440-443: the files of the sources of the nodes, fixed.
FixNode(node, paths) ==
    IF node.source.present
    THEN [node EXCEPT !.source.file = fix_file_path(@, paths)]
    ELSE node
FixPaths(g, paths) == [g EXCEPT !.nodes = [i \in 1..Len(g.nodes) |-> FixNode(g.nodes[i], paths)]]

\* Lines 316-326: a request too large is refused before any call.
Reject ==
    /\ req_pc = "call"
    /\ req_pc' = "done"
    /\ http_status' = 413
    /\ UNCHANGED <<file_paths, result, attempt, generator_calls, engine_calls, graph, engine>>
    /\ UNCHANGED <<parserVars, trialVars, tokenVars>>

\* Lines 353-361: the first call of the generator; what it raises ends the
\* request at lines 497-500.
Generate ==
    /\ req_pc = "call"
    /\ generator_calls' = generator_calls + 1
    /\ \/ \E text \in GeneratorOutputs :
              /\ result' = Strip(text)
              /\ req_pc' = "loop"
              /\ http_status' = http_status
       \/ /\ result' = result
          /\ req_pc' = "done"
          /\ http_status' = 500
    /\ UNCHANGED <<file_paths, attempt, engine_calls, graph, engine>>
    /\ UNCHANGED <<parserVars, trialVars, tokenVars>>

\* Line 389: what parse_mermaid_response(clean_result.strip()) ends with,
\* for each text that the generator may have answered.
Results == {Strip(text) : text \in GeneratorOutputs}
\* parse_mermaid_response is a pure function: `engine` holds, from the start of
\* the request, what it answers to each of these texts.
EngineCall(r) == [text |-> Strip(CleanResult(r)), outcome |-> Alone(Strip(CleanResult(r)))]
Engine == [r \in Results |-> EngineCall(r)]

\* Lines 380-389: a turn of the loop strips the wrappers and calls the
\* engine.
Attempt ==
    /\ req_pc = "loop"
    /\ req_pc' = "parsed"
    /\ engine_calls' = engine_calls + 1
    /\ input' = engine[result].text
    /\ pc' = "done"
    /\ outcome' = engine[result].outcome
    /\ UNCHANGED <<response, diagram_part, metadata_part, rule, node_metadata, workflows,
                   blocks, all_nodes, all_edges, workflow_metadata, printed, peers>>
    /\ UNCHANGED <<file_paths, result, attempt, generator_calls, http_status, graph, engine>>
    /\ UNCHANGED <<trialVars, tokenVars>>

\* Lines 389-390 and 436-449: the engine returned a graph; the loop ends and
\* the request answers with it.
Succeed ==
    /\ req_pc = "parsed"
    /\ outcome.kind = "Graph"
    /\ graph' = FixPaths(outcome, file_paths)
    /\ http_status' = 200
    /\ req_pc' = "done"
    /\ UNCHANGED <<file_paths, result, attempt, generator_calls, engine_calls, engine>>
    /\ UNCHANGED <<parserVars, trialVars, tokenVars>>

CanRetryOnceMore(a) == a < MAX_RETRIES + 1
\* Line 392: if attempt < MAX_RETRIES
CanRetry(a) == a < MAX_RETRIES

\* Lines 391-428: a ValueError with retries left; the corrective call of the
\* generator gives the text of the next turn, or raises and ends the
\* request.
Retry ==
    /\ req_pc = "parsed"
    /\ outcome.kind \in ParseErrors
    /\ CanRetry(attempt)
    /\ generator_calls' = generator_calls + 1
    /\ \/ \E text \in GeneratorOutputs :
              /\ result' = Strip(text)
              /\ attempt' = attempt + 1
              /\ req_pc' = "loop"
              /\ http_status' = http_status
       \/ /\ result' = result
          /\ attempt' = attempt
          /\ req_pc' = "done"
          /\ http_status' = 500
    /\ UNCHANGED <<file_paths, engine_calls, graph, engine>>
    /\ UNCHANGED <<parserVars, trialVars, tokenVars>>

\* Lines 429-434: a ValueError in the last turn.
Exhausted ==
    /\ req_pc = "parsed"
    /\ outcome.kind \in ParseErrors
    /\ ~CanRetry(attempt)
    /\ req_pc' = "done"
    /\ http_status' = 500
    /\ UNCHANGED <<file_paths, result, attempt, generator_calls, engine_calls, graph, engine>>
    /\ UNCHANGED <<parserVars, trialVars, tokenVars>>

\* Lines 497-500: any other exception of the engine ends the request.
Crash ==
    /\ req_pc = "parsed"
    /\ outcome.kind \notin ParseErrors \cup {"Graph"}
    /\ req_pc' = "done"
    /\ http_status' = 500
    /\ UNCHANGED <<file_paths, result, attempt, generator_calls, engine_calls, graph, engine>>
    /\ UNCHANGED <<parserVars, trialVars, tokenVars>>

InitRequest ==
    /\ input = <<>>
    /\ pc = "idle"
    /\ response = <<>>
    /\ diagram_part = <<>>
    /\ metadata_part = <<>>
    /\ rule = 0
    /\ node_metadata = EmptyDict
    /\ workflows = <<>>
    /\ blocks = <<>>
    /\ all_nodes = <<>>
    /\ all_edges = <<>>
    /\ workflow_metadata = <<>>
    /\ printed = NoPrints
    /\ outcome = NoOutcome
    /\ peers = <<>>
    /\ req_pc = "call"
    /\ file_paths \in FilePaths
    /\ result = <<>>
    /\ attempt = 0
    /\ generator_calls = 0
    /\ engine_calls = 0
    /\ http_status = 0
    /\ graph = NoOutcome
    /\ engine = Engine
    /\ NoTrial /\ NoTokens

NextRequest ==
    \/ Reject
    \/ Generate
    \/ Attempt
    \/ Succeed
    \/ Retry
    \/ Exhausted
    \/ Crash

\* The request runs on while it can: every await of it returns or raises.
SpecRequest == InitRequest /\ [][NextRequest]_vars /\ WF_vars(NextRequest)


\* C26: in every request the engine is invoked at most three times and the
\* generator at most three times, once at first and once more after each
\* parse error that is retried; a graph of the engine ends the request with
\* that graph and no further call; a parse error in the third turn ends the
\* request with status 500 and no further call; and every request ends.
C26_AttemptBudget ==
    /\ [](/\ engine_calls <= 3
          /\ generator_calls <= 3
          /\ (req_pc \in {"loop", "parsed"} => generator_calls = attempt + 1)
          /\ (req_pc = "parsed" => engine_calls = attempt + 1)
          /\ (http_status = 200 => outcome.kind = "Graph" /\ graph.kind = "Graph"))
    /\ [][/\ generator_calls' > generator_calls
              => \/ generator_calls = 0
                 \/ req_pc = "parsed" /\ outcome.kind \in ParseErrors /\ engine_calls < 3
          /\ (req_pc = "parsed" /\ outcome.kind = "Graph")
              => /\ req_pc' = "done" /\ http_status' = 200
                 /\ graph' = FixPaths(outcome, file_paths)
                 /\ engine_calls' = engine_calls /\ generator_calls' = generator_calls
          /\ (req_pc = "parsed" /\ outcome.kind \in ParseErrors /\ engine_calls = 3)
              => /\ req_pc' = "done" /\ http_status' = 500
                 /\ engine_calls' = engine_calls /\ generator_calls' = generator_calls
          /\ req_pc = "done" => UNCHANGED vars]_vars
    /\ <>(req_pc = "done" /\ http_status # 0)
C26_ThirdAttemptFailed ==
    /\ req_pc = "done"
    /\ http_status = 500
    /\ engine_calls = 3
    /\ generator_calls = 3
    /\ outcome.kind \in ParseErrors


\* C27: the workflows of a returned Graph have pairwise different ids, also
\* when two blocks keep the default name, carry the same name, or carry names
\* that differ only in case or in characters outside [a-z0-9_].
C27_WorkflowIdsUnique ==
    Returned =>
        \A i, j \in 1..Len(outcome.workflows) :
            i # j => outcome.workflows[i].id # outcome.workflows[j].id


\* The blocks whose nodes hold the id, and the earliest of them.
BlocksWith(id) == {b \in 1..Len(blocks) : HasNode(blocks[b].nodes, id)}
FirstBlock(id) == MinOf(BlocksWith(id))
NodeIn(b, id) == CHOOSE n \in Range(blocks[b].nodes) : n.id = id
KeptFromFirstBlock ==
    \A n \in Range(outcome.nodes) :
        /\ BlocksWith(n.id) # {}
        /\ n = NodeIn(FirstBlock(n.id), n.id)
OrderedByDiscovery ==
    \A i, j \in 1..Len(outcome.nodes) :
        i < j => FirstBlock(outcome.nodes[i].id) <= FirstBlock(outcome.nodes[j].id)
Shared(id) == \E b, c \in BlocksWith(id) : b # c
FromFirstOccurrence ==
    \A n \in Range(outcome.nodes) : Shared(n.id) =>
        /\ n.label = CleanLabel(FirstOccurrence(blocks[FirstBlock(n.id)].lines, n.id).label)
        /\ ~HasTypeOverride(n.id)
              => n.type = node_patterns[FirstOccurrence(blocks[FirstBlock(n.id)].lines, n.id).k].type
\* C28: of an id that several blocks define by a shape, the returned Graph
\* keeps the node of the earliest block, with the label and the type of the
\* first shape of the id in that block; the nodes are ordered by the block
\* that first discovered them.
C28_EarliestBlockKept ==
    Returned => KeptFromFirstBlock /\ OrderedByDiscovery /\ FromFirstOccurrence
C28_KeptAndOrdered ==
    Returned => KeptFromFirstBlock /\ OrderedByDiscovery
C28_SharedIdOtherShape ==
    /\ Returned
    /\ \E n \in Range(outcome.nodes) :
          \E b \in BlocksWith(n.id) :
              /\ b # FirstBlock(n.id)
              /\ NodeIn(b, n.id).label # n.label
              /\ NodeIn(b, n.id).type # n.type


(***************************************************************************)
(* The trial quota (database.py, lines 106-165).  One row of trial_devices *)
(* for one machine_id; the calls of increment_trial_usage run each on a    *)
(* session of their own and give way to each other at every await.  The    *)
(* database is PostgreSQL (config.py, line 13) at its default isolation:   *)
(* a statement sees what is committed when it runs, and the UPDATE that a  *)
(* commit flushes sets the columns to the values computed in Python.       *)
(***************************************************************************)
\* config.py, line 7
free_trial_requests_per_day == 5
\* The calls that run side by side and the calls that each of them makes.
MaxSessions == 2
MaxCalls == 5

max(a, b) == IF a >= b THEN a ELSE b
NewSession == [pc |-> "select", analyses_today |-> 0, remaining |-> 0,
               error |-> "none", wrote |-> FALSE, calls |-> 1]
Running(s) == sessions[s].pc \notin {"returned", "raised"}

\* Lines 117-124 and 137: the SELECT of the row and the branch taken.
Select(s) ==
    /\ sessions[s].pc = "select"
    /\ sessions' = [sessions EXCEPT
          ![s].analyses_today = trial_device.analyses_today,
          ![s].pc = IF ~trial_device.exists THEN "create"
                    ELSE IF ~trial_device.today THEN "reset"
                    ELSE "remaining"]
    /\ UNCHANGED <<trial_device, granted_today>>
    /\ UNCHANGED <<parserVars, requestVars, tokenVars>>

\* Lines 124-132: the INSERT of a new row; machine_id is unique, so the
\* commit raises IntegrityError when another session has inserted the row.
Create(s) ==
    /\ sessions[s].pc = "create"
    /\ IF trial_device.exists
       THEN /\ sessions' = [sessions EXCEPT ![s].pc = "raised",
                                            ![s].error = "IntegrityError"]
            /\ UNCHANGED trial_device
       ELSE /\ trial_device' = [exists |-> TRUE, analyses_today |-> 0, today |-> TRUE]
            /\ sessions' = [sessions EXCEPT ![s].pc = "refresh_new", ![s].wrote = TRUE]
    /\ UNCHANGED granted_today
    /\ UNCHANGED <<parserVars, requestVars, tokenVars>>

\* Lines 133-134: the refresh after the INSERT, and remaining = the quota.
RefreshNew(s) ==
    /\ sessions[s].pc = "refresh_new"
    /\ sessions' = [sessions EXCEPT
          ![s].analyses_today = trial_device.analyses_today,
          ![s].remaining = free_trial_requests_per_day,
          ![s].pc = "check"]
    /\ UNCHANGED <<trial_device, granted_today>>
    /\ UNCHANGED <<parserVars, requestVars, tokenVars>>

\* Lines 137-140: the row is of an earlier day; the counter is set to 0.
ResetDay(s) ==
    /\ sessions[s].pc = "reset"
    /\ trial_device' = [trial_device EXCEPT !.analyses_today = 0, !.today = TRUE]
    /\ sessions' = [sessions EXCEPT ![s].pc = "refresh_reset", ![s].wrote = TRUE]
    /\ UNCHANGED granted_today
    /\ UNCHANGED <<parserVars, requestVars, tokenVars>>

\* Line 141: the refresh after the reset.
RefreshReset(s) ==
    /\ sessions[s].pc = "refresh_reset"
    /\ sessions' = [sessions EXCEPT
          ![s].analyses_today = trial_device.analyses_today,
          ![s].pc = "remaining"]
    /\ UNCHANGED <<trial_device, granted_today>>
    /\ UNCHANGED <<parserVars, requestVars, tokenVars>>

\* Line 143: remaining = max(0, quota - device.analyses_today)
Remaining(s) ==
    /\ sessions[s].pc = "remaining"
    /\ sessions' = [sessions EXCEPT
          ![s].remaining = max(0, free_trial_requests_per_day - sessions[s].analyses_today),
          ![s].pc = "check"]
    /\ UNCHANGED <<trial_device, granted_today>>
    /\ UNCHANGED <<parserVars, requestVars, tokenVars>>

\* Lines 159-160: if remaining <= 0: raise ValueError("Trial quota exhausted")
Exhaust(s) ==
    /\ sessions[s].pc = "check"
    /\ sessions[s].remaining <= 0
    /\ sessions' = [sessions EXCEPT ![s].pc = "raised", ![s].error = "ValueError"]
    /\ UNCHANGED <<trial_device, granted_today>>
    /\ UNCHANGED <<parserVars, requestVars, tokenVars>>

\* What the commit of line 163 writes.
Incremented(device) == device.analyses_today + 1
\* Lines 162-165: device.analyses_today += 1, the commit and the return.
Increment(s) ==
    /\ sessions[s].pc = "check"
    /\ sessions[s].remaining > 0
    /\ trial_device' = [trial_device EXCEPT !.analyses_today = Incremented(sessions[s])]
    /\ sessions' = [sessions EXCEPT
          ![s].analyses_today = Incremented(sessions[s]),
          ![s].remaining = sessions[s].remaining - 1,
          ![s].pc = "returned",
          ![s].wrote = TRUE]
    /\ granted_today' = granted_today + 1
    /\ UNCHANGED <<parserVars, requestVars, tokenVars>>

\* The next call, on a session of its own.
Call(s) ==
    /\ ~Running(s)
    /\ sessions[s].calls < MaxCalls
    /\ sessions' = [sessions EXCEPT ![s] = [NewSession EXCEPT !.calls = sessions[s].calls + 1]]
    /\ UNCHANGED <<trial_device, granted_today>>
    /\ UNCHANGED <<parserVars, requestVars, tokenVars>>

\* No row yet, or the row of an earlier day.
InitTrial ==
    /\ input = <<>>
    /\ pc = "idle"
    /\ response = <<>>
    /\ diagram_part = <<>>
    /\ metadata_part = <<>>
    /\ rule = 0
    /\ node_metadata = EmptyDict
    /\ workflows = <<>>
    /\ blocks = <<>>
    /\ all_nodes = <<>>
    /\ all_edges = <<>>
    /\ workflow_metadata = <<>>
    /\ printed = NoPrints
    /\ outcome = NoOutcome
    /\ peers = <<>>
    /\ NoRequest /\ NoTokens
    /\ trial_device \in
          {[exists |-> FALSE, analyses_today |-> 0, today |-> TRUE]}
          \cup {[exists |-> TRUE, analyses_today |-> n, today |-> FALSE] :
                   n \in 0..free_trial_requests_per_day}
    /\ sessions = [s \in 1..MaxSessions |-> NewSession]
    /\ granted_today = 0

NextTrial ==
    \E s \in 1..MaxSessions :
        \/ Select(s)
        \/ Create(s)
        \/ RefreshNew(s)
        \/ ResetDay(s)
        \/ RefreshReset(s)
        \/ Remaining(s)
        \/ Exhaust(s)
        \/ Increment(s)
        \/ Call(s)

SpecTrial == InitTrial /\ [][NextTrial]_vars

\* C29: under every interleaving of the calls of increment_trial_usage for
\* one machine within a day, the stored analyses_today never passes the daily
\* quota, at most as many calls as the quota return without error, and a
\* call that finds the quota used up raises ValueError without having
\* written the row.
C29_QuotaNeverExceeded ==
    /\ trial_device.analyses_today <= free_trial_requests_per_day
    /\ granted_today <= free_trial_requests_per_day
    /\ \A s \in 1..Len(sessions) :
          /\ sessions[s].pc = "returned"
                => sessions[s].analyses_today <= free_trial_requests_per_day
          /\ (sessions[s].pc = "raised" /\ sessions[s].error = "ValueError")
                => ~sessions[s].wrote
C29_StoredWithinQuota == trial_device.analyses_today <= free_trial_requests_per_day
C29_GrantedWithinQuota == granted_today <= free_trial_requests_per_day


(***************************************************************************)
(* The refresh tokens of one user (database.py, lines 327-426): the users  *)
(* row, and the calls of store_refresh_token, validate_refresh_token and   *)
(* invalidate_refresh_tokens on it, one after the other.                   *)
(***************************************************************************)
\* The raw tokens and the token families of the calls, and the last
\* token_version up to which the calls go on.
MaxTokens == 2
MaxFamilies == 2
MaxVersion == 4
Tokens == {<<"t", n>> : n \in 1..MaxTokens}
Families == {[k |-> "uuid", v |-> <<"f", n>>] : n \in 1..MaxFamilies}

\* Line 324: hashlib.sha256(token.encode()).hexdigest(), a text of 64 hex
\* digits that differs from token to token.
hash_refresh_token(token) == [k |-> "str", v |-> <<"sha256">> \o token]

NewUser == [exists |-> TRUE, hashed_refresh_token |-> NoValue, token_family |-> NoValue,
            token_version |-> 0]

\* Lines 351-352: if not user: raise ValueError("User not found")
StoreNotFound(refresh_token, token_family) ==
    /\ ~user.exists
    /\ last_call' = [op |-> "store", token |-> refresh_token, family |-> token_family,
                     valid |-> FALSE, returned |-> NoValue, error |-> "ValueError"]
    /\ UNCHANGED <<user, stored>>
    /\ UNCHANGED <<parserVars, requestVars, trialVars>>

\* Lines 355-356: a new family when none is given; uuid4 may give any.
FamilyOf(token_family) == IF token_family = NoValue THEN Families ELSE {token_family}

\* Lines 359-366.
StoreToken(refresh_token, token_family) ==
    /\ user.exists
    /\ user.token_version < MaxVersion
    /\ \E family \in FamilyOf(token_family) :
          /\ user' = [user EXCEPT !.hashed_refresh_token = hash_refresh_token(refresh_token),
                                  !.token_family = family,
                                  !.token_version = @ + 1]
          /\ stored' = [token |-> refresh_token, family |-> family, stands |-> TRUE]
          /\ last_call' = [op |-> "store", token |-> refresh_token, family |-> token_family,
                           valid |-> FALSE, returned |-> family, error |-> "none"]
    /\ UNCHANGED <<parserVars, requestVars, trialVars>>

\* not user.hashed_refresh_token
Stored(value) == value # NoValue /\ value.v # <<>>
ValidatesAnyFamily(u, refresh_token, expected_family) ==
    /\ u.exists
    /\ Stored(u.hashed_refresh_token)
    /\ hash_refresh_token(refresh_token) = u.hashed_refresh_token
\* Lines 393-402.
Validates(u, refresh_token, expected_family) ==
    /\ u.exists
    /\ Stored(u.hashed_refresh_token)
    /\ u.token_family = expected_family
    /\ hash_refresh_token(refresh_token) = u.hashed_refresh_token

\* Lines 388-402.
ValidateToken(refresh_token, expected_family) ==
    /\ last_call' = [op |-> "validate", token |-> refresh_token, family |-> expected_family,
                     valid |-> Validates(user, refresh_token, expected_family),
                     returned |-> NoValue, error |-> "none"]
    /\ UNCHANGED <<user, stored>>
    /\ UNCHANGED <<parserVars, requestVars, trialVars>>

\* Lines 417-426.
InvalidateTokens ==
    /\ user.exists => user.token_version < MaxVersion
    /\ user' = IF user.exists
               THEN [user EXCEPT !.hashed_refresh_token = NoValue,
                                 !.token_family = NoValue,
                                 !.token_version = @ + 1]
               ELSE user
    /\ stored' = [stored EXCEPT !.stands = FALSE]
    /\ last_call' = [op |-> "invalidate", token |-> <<>>, family |-> NoValue,
                     valid |-> FALSE, returned |-> NoValue, error |-> "none"]
    /\ UNCHANGED <<parserVars, requestVars, trialVars>>

InitToken ==
    /\ input = <<>>
    /\ pc = "idle"
    /\ response = <<>>
    /\ diagram_part = <<>>
    /\ metadata_part = <<>>
    /\ rule = 0
    /\ node_metadata = EmptyDict
    /\ workflows = <<>>
    /\ blocks = <<>>
    /\ all_nodes = <<>>
    /\ all_edges = <<>>
    /\ workflow_metadata = <<>>
    /\ printed = NoPrints
    /\ outcome = NoOutcome
    /\ peers = <<>>
    /\ NoRequest /\ NoTrial
    /\ user \in {NewUser, [NewUser EXCEPT !.exists = FALSE]}
    /\ stored = [token |-> <<>>, family |-> NoValue, stands |-> FALSE]
    /\ last_call = [op |-> "none", token |-> <<>>, family |-> NoValue,
                    valid |-> FALSE, returned |-> NoValue, error |-> "none"]

NextToken ==
    \/ \E refresh_token \in Tokens, token_family \in Families \cup {NoValue} :
          \/ StoreNotFound(refresh_token, token_family)
          \/ StoreToken(refresh_token, token_family)
          \/ ValidateToken(refresh_token, token_family)
    \/ InvalidateTokens

SpecToken == InitToken /\ [][NextToken]_vars

\* C30: for a user that exists, over every sequence of the three calls:
\* validate_refresh_token(t, f) returns True exactly when t is the token
\* stored last, f the family stored with it and no invalidate has followed
\* that store; token_version grows with every store and every invalidate;
\* validate changes nothing of the row.
C30_TokenLifecycle ==
    [][user.exists =>
         /\ last_call'.op = "validate" =>
               /\ user' = user
               /\ last_call'.valid = (/\ stored.stands
                                      /\ last_call'.token = stored.token
                                      /\ last_call'.family = stored.family)
         /\ last_call'.op \in {"store", "invalidate"} =>
               user'.token_version > user.token_version]_vars
C30_ValidAfterRotation ==
    /\ last_call.op = "validate"
    /\ last_call.valid
    /\ user.token_version >= 2
C30_FalseAfterInvalidate ==
    /\ last_call.op = "validate"
    /\ ~last_call.valid
    /\ ~stored.stands
    /\ last_call.token = stored.token
    /\ last_call.family = stored.family
    /\ user.exists

=============================================================================
